---- MODULE Spec2Model ----
(***************************************************************************)
(* Retrieval orchestration and resilience layer of OLIVIA / IA Droits      *)
(* Victimes: the persistent search engine with its SQL cache               *)
(* (app/services/legal_search_persistent.py, app/database.py), the PISTE   *)
(* client with its OAuth2 token store (app/services/api_clients.py) and    *)
(* the fan-out endpoints of app/main.py.                                   *)
(***************************************************************************)
EXTENDS Integers, Sequences, FiniteSets, TLC

VARIABLES
    now,        \* wall clock: minutes in the cache specification, seconds in the client ones
    config,     \* MoteurRecherchePersistent.config: the feature flags
    cache,      \* rows of table recherches_cachees
    ret,        \* outcome of the last analyser_et_rechercher_persistent call
    pending,    \* the calls of it that run concurrently, between lookup and write
    tokens,        \* ClientMultiAPIs.tokens
    token_expiry,  \* ClientMultiAPIs.token_expiry
    semaphore,     \* free permits of ClientMultiAPIs.semaphore
    issued,        \* number of tokens the token endpoint has issued, per service
    task,          \* the coroutines running on the event loop
    request,       \* the HTTP request being served by an endpoint of app/main.py
    piste_config,  \* ClientMultiAPIs.config: the PISTE credentials and token URLs
    command,       \* the run of the command python -m app.services.piste_oauth
    db,               \* the last block run under db.session() of app/database.py
    readiness_cache,  \* readiness_cache of app/main.py: _cache and _timestamp
    probe,            \* the running api_readiness_check or health_check coroutine
    dossier           \* the Dossier handed to DossierWatcher.surveiller_dossier

cacheVars == <<now, config, cache, ret, pending>>

engineVars == <<config, cache, ret, pending>>

endpointVars == <<request>>

commandVars == <<piste_config, command>>

clientVars == <<tokens, token_expiry, semaphore, issued, task>>

appVars == <<db, readiness_cache, probe, dossier>>

vars == <<now, config, cache, ret, pending, tokens, token_expiry, semaphore, issued, task, request,
         piste_config, command, db, readiness_cache, probe, dossier>>

None == "None"

Services == {"legifrance", "judilibre", "justice_back"}

(***************************************************************************)
(* Bounds of the model.                                                    *)
(***************************************************************************)
\* the cache specification's clock stops here (minutes)
MaxTime == 62
\* the token specification's clock stops here (seconds)
MaxSeconds == 120
\* the token endpoint issues at most this many tokens
MaxIssued == 3
\* permits of the semaphore in the pool specification: fewer than there are tasks
PoolSize == 2
\* the retry specification's clock stops here (seconds)
MaxRetryClock == 6

(***************************************************************************)
(* Program constants.                                                      *)
(***************************************************************************)
\* DEFAULT_CACHE_TTL = timedelta(minutes=30), in minutes
DEFAULT_CACHE_TTL == 30

(***************************************************************************)
(* Text.  A situation is a sequence of tokens, each a whitespace character *)
(* (" ") or a word.                                                        *)
(***************************************************************************)
IsSpace(t) == t = " "

\* the truth value of an optional string: None and the empty string are false
IsTrue(x) == x # None /\ x # ""

RECURSIVE LStrip(_)
LStrip(s) == IF s # <<>> /\ IsSpace(Head(s)) THEN LStrip(Tail(s)) ELSE s

RECURSIVE RStrip(_)
RStrip(s) ==
    IF s # <<>> /\ IsSpace(s[Len(s)]) THEN RStrip(SubSeq(s, 1, Len(s) - 1)) ELSE s

\* the text left as it is
Strip_Nothing(s) == s

\* str.strip()
Strip(s) == RStrip(LStrip(s))

\* str.lower() on one token
LowerToken(t) ==
    CASE t = "Plainte" -> "plainte"
      [] t = "Contrat" -> "contrat"
      [] OTHER -> t

\* tokens the pattern [a-z...-]{4,} matches once lowered: words of 4 letters or more
LongWords == {"plainte", "contrat", "victime"}

RECURSIVE Dedup(_, _)
Dedup(s, seen) ==
    IF s = <<>> THEN seen
    ELSE LET t == LowerToken(Head(s)) IN
         IF t \in LongWords /\ \A i \in 1..Len(seen) : seen[i] # t
         THEN Dedup(Tail(s), Append(seen, t))
         ELSE Dedup(Tail(s), seen)

Prefix(s, n) == SubSeq(s, 1, IF Len(s) < n THEN Len(s) ELSE n)

_extraire_mots_cles(situation) == Prefix(Dedup(situation, <<>>), 8)

domaines(mot) ==
    CASE mot = "contrat" -> "Droit civil"
      [] mot = "plainte" -> "Droit pénal"
      [] OTHER -> None

RECURSIVE _detecter_strategie(_)
_detecter_strategie(mots_cles) ==
    IF mots_cles = <<>> THEN "Auto-détection"
    ELSE IF domaines(Head(mots_cles)) # None THEN domaines(Head(mots_cles))
    ELSE _detecter_strategie(Tail(mots_cles))

\* the characters of one token: a word of the vocabulary is spelled out, every other
\* token is a single character
Chars(t) ==
    CASE t = "plainte" -> <<"p", "l", "a", "i", "n", "t", "e">>
      [] t = "Plainte" -> <<"P", "l", "a", "i", "n", "t", "e">>
      [] t = "contrat" -> <<"c", "o", "n", "t", "r", "a", "t">>
      [] t = "Contrat" -> <<"C", "o", "n", "t", "r", "a", "t">>
      [] t = "victime" -> <<"v", "i", "c", "t", "i", "m", "e">>
      [] OTHER -> <<t>>

\* the characters of a text
RECURSIVE Text(_)
Text(s) == IF s = <<>> THEN <<>> ELSE Chars(Head(s)) \o Text(Tail(s))

\* f"... {situation[:120]}..." if len(situation) > 120 else f"... {situation}"
_generer_resume(situation, strategie) ==
    IF Len(Text(situation)) > 120
    THEN <<strategie, SubSeq(Text(situation), 1, 120) \o <<".", ".", ".">> >>
    ELSE <<strategie, Text(situation)>>

_build_query_from_keywords(mots_cles) ==
    IF mots_cles # <<>> THEN Prefix(mots_cles, 5)
    ELSE <<"victime", "droits", "protection">>

\* strategie or self._detecter_strategie(mots_cles)
_analyser_situation(situation, strategie) ==
    LET mots_cles == _extraire_mots_cles(situation)
        strategie_detectee ==
            IF IsTrue(strategie) THEN strategie ELSE _detecter_strategie(mots_cles)
    IN [situation |-> situation,
        strategie_detectee |-> strategie_detectee,
        mots_cles |-> mots_cles,
        resume |-> _generer_resume(situation, strategie_detectee)]

\* APIClients.compute_hash: a digest of the dictionary it is given
compute_hash(d) == <<"hash", d.situation, d.strategie>>

(***************************************************************************)
(* Optional values: <<>> is Python's None, <<x>> is the value x.           *)
(***************************************************************************)
Nothing == <<>>
Some(x) == <<x>>

(***************************************************************************)
(* The cache table (app/database.py, RechercheCache) and its two accessors *)
(***************************************************************************)
\* the rows selected by query_hash alone
RowsOf_AnyUser(rows, user_id, query_hash) ==
    {r \in rows : r.query_hash = query_hash}

\* rows of the table that a SELECT ... WHERE user_id = ? AND query_hash = ? returns
RowsOf(rows, user_id, query_hash) ==
    {r \in rows : r.user_id = user_id /\ r.query_hash = query_hash}

\* UniqueConstraint("user_id", "query_hash"): would inserting this key conflict?
uq_user_query_hash(rows, user_id, query_hash) ==
    RowsOf(rows, user_id, query_hash) = {}

\* the staleness test with the boundary on the wrong side: an entry aged exactly
\* the TTL counts as stale
Expired_AtTtl(entry, t) == entry.created_at <= t - DEFAULT_CACHE_TTL

\* entry.created_at < datetime.utcnow() - self.cache_ttl
Expired(entry, t) == entry.created_at < t - DEFAULT_CACHE_TTL

_charger_depuis_cache(rows, user_id, query_hash, t) ==
    LET found == RowsOf(rows, user_id, query_hash) IN
    IF found = {} THEN Nothing
    ELSE LET entry == CHOOSE r \in found : \A q \in found : q.created_at <= r.created_at
         IN IF Expired(entry, t) THEN Nothing ELSE Some(entry.resultats)

\* the table without its unique constraint: every insert goes through
_enregistrer_cache_NoConstraint(rows, user_id, query_hash, analyse, resultats, t) ==
    rows \cup {[user_id |-> user_id,
                query_hash |-> query_hash,
                situation |-> analyse.situation,
                strategie |-> analyse.strategie_detectee,
                resultats |-> resultats,
                created_at |-> t]}

\* session.add + flush; on IntegrityError the insert is rolled back and dropped
_enregistrer_cache(rows, user_id, query_hash, analyse, resultats, t) ==
    IF uq_user_query_hash(rows, user_id, query_hash)
    THEN rows \cup {[user_id |-> user_id,
                     query_hash |-> query_hash,
                     situation |-> analyse.situation,
                     strategie |-> analyse.strategie_detectee,
                     resultats |-> resultats,
                     created_at |-> t]}
    ELSE rows

(***************************************************************************)
(* Concrete searches of the engine.  api[s] is what the APIClients method  *)
(* of service s returns when called: a pair (success, payload).            *)
(***************************************************************************)
EmptyResults == [results |-> <<>>]

ApiReturns ==
    {[success |-> FALSE, payload |-> [results |-> <<"erreur">>]],
     [success |-> TRUE, payload |-> [results |-> <<>>]],
     [success |-> TRUE, payload |-> [results |-> <<"r1">>]]}

Flag(cfg, service) ==
    CASE service = "legifrance" -> cfg.FF_LEGIFRANCE
      [] service = "judilibre" -> cfg.FF_JUDILIBRE
      [] service = "justice_back" -> cfg.FF_JUSTICEBACK

\* _rechercher_legifrance, _rechercher_judilibre, _rechercher_justice_back
_rechercher(cfg, service, api) ==
    IF ~Flag(cfg, service) THEN EmptyResults
    ELSE IF api[service].success THEN api[service].payload ELSE EmptyResults

\* the services whose client method a fan-out invokes
Invoked(cfg) == {s \in Services : Flag(cfg, s)}

\* dict.setdefault(key, value)
SetDefault(d, key, value) ==
    IF key \in DOMAIN d THEN d
    ELSE [k \in DOMAIN d \cup {key} |-> IF k = key THEN value ELSE d[k]]

Assemble(analyse, strategie, legifrance, judilibre, justice_back, t) ==
    [situation |-> analyse.situation,
     strategie |-> IF IsTrue(strategie) THEN strategie ELSE analyse.strategie_detectee,
     analyse |-> [situation |-> analyse.situation,
                  strategie_detectee |-> analyse.strategie_detectee,
                  mots_cles |-> analyse.mots_cles,
                  resume |-> analyse.resume,
                  nombre_textes |-> Len(legifrance.results),
                  nombre_jurisprudence |-> Len(judilibre.results),
                  nombre_lieux |-> Len(justice_back.results)],
     legifrance |-> legifrance,
     judilibre |-> judilibre,
     justice_back |-> justice_back,
     timestamp |-> t,
     from_cache |-> FALSE]

\* the key under which a call looks up and stores
QueryHash(situation, strategie) ==
    LET analyse == _analyser_situation(Strip(situation), strategie) IN
    compute_hash([situation |-> analyse.situation,
                  strategie |-> analyse.strategie_detectee])

\* ret records what the last call returned (kind, resultats) and what it did on the
\* way: when it ran (at), under which key, whether it fanned out, which client
\* methods it invoked (queried) and which of those reported a failure (failed)
NoRet == [kind |-> "none", user_id |-> None, query_hash |-> <<>>, at |-> 0,
          resultats |-> Nothing, fanout |-> FALSE, queried |-> {}, failed |-> {}]

\* the threads that can be inside analyser_et_rechercher_persistent at once
Calls == {"c1", "c2"}

NoPending == [c \in Calls |-> Nothing]

\* a thread runs analyser_et_rechercher_persistent up to the answer of the cache:
\* it returns on a hit and goes on to the searches on a miss
Lookup(c, situation0, strategie, user_id) ==
    /\ pending[c] = Nothing
    /\ LET situation == Strip(situation0)
           analyse == _analyser_situation(situation, strategie)
           query_hash == compute_hash([situation |-> analyse.situation,
                                       strategie |-> analyse.strategie_detectee])
           cached == _charger_depuis_cache(cache, user_id, query_hash, now)
       IN IF situation = <<>>
          THEN /\ ret' = [NoRet EXCEPT !.kind = "ValueError", !.user_id = user_id,
                                       !.at = now]
               /\ UNCHANGED pending
          ELSE IF cached # Nothing
          THEN /\ ret' = [kind |-> "return", user_id |-> user_id,
                          query_hash |-> query_hash, at |-> now,
                          resultats |-> Some(SetDefault(cached[1], "from_cache", TRUE)),
                          fanout |-> FALSE, queried |-> {}, failed |-> {}]
               /\ UNCHANGED pending
          ELSE /\ pending' = [pending EXCEPT ![c] =
                        Some([situation |-> situation, strategie |-> strategie,
                              user_id |-> user_id, at |-> now])]
               /\ UNCHANGED ret
    /\ UNCHANGED <<now, config, cache, clientVars, endpointVars, commandVars, appVars>>

\* the thread runs the three searches, assembles the results and writes them to
\* the cache; ret.at is the time of its lookup
SearchAndStore(c, api) ==
    /\ pending[c] # Nothing
    /\ LET p == pending[c][1]
           analyse == _analyser_situation(p.situation, p.strategie)
           query_hash == compute_hash([situation |-> analyse.situation,
                                       strategie |-> analyse.strategie_detectee])
           legifrance == _rechercher(config, "legifrance", api)
           judilibre == _rechercher(config, "judilibre", api)
           justice_back == _rechercher(config, "justice_back", api)
           resultats == Assemble(analyse, p.strategie, legifrance, judilibre,
                                 justice_back, now)
       IN /\ cache' = _enregistrer_cache(cache, p.user_id, query_hash, analyse,
                                         resultats, now)
          /\ ret' = [kind |-> "return", user_id |-> p.user_id, query_hash |-> query_hash,
                     at |-> p.at, resultats |-> Some(resultats), fanout |-> TRUE,
                     queried |-> Invoked(config),
                     failed |-> {s \in Invoked(config) : ~api[s].success}]
    /\ pending' = [pending EXCEPT ![c] = Nothing]
    /\ UNCHANGED <<now, config, clientVars, endpointVars, commandVars, appVars>>

\* the order in which analyser_et_rechercher_persistent runs its three searches
SearchOrder == <<"legifrance", "judilibre", "justice_back">>

\* the services searched before the service at position i of SearchOrder
SearchedBefore(i) == {SearchOrder[j] : j \in 1..(i - 1)}

\* the errors an adapter raises: a refused token exchange and an upstream that
\* stays unavailable
AdapterErrors == {"AuthExchangeError", "UpstreamUnavailableError"}

\* the thread runs its searches and the client method of the service at position i,
\* whose flag is set, raises: _rechercher_* and analyser_et_rechercher_persistent
\* have no handler, so the later searches are not run, nothing is written to the
\* cache and the call ends with the exception
SearchRaises(c, api, i, error) ==
    /\ pending[c] # Nothing
    /\ Flag(config, SearchOrder[i])
    /\ LET p == pending[c][1]
           analyse == _analyser_situation(p.situation, p.strategie)
           query_hash == compute_hash([situation |-> analyse.situation,
                                       strategie |-> analyse.strategie_detectee])
           called == Invoked(config) \cap SearchedBefore(i)
       IN ret' = [kind |-> error, user_id |-> p.user_id, query_hash |-> query_hash,
                  at |-> p.at, resultats |-> Nothing, fanout |-> TRUE,
                  queried |-> called \cup {SearchOrder[i]},
                  failed |-> {s \in called : ~api[s].success} \cup {SearchOrder[i]}]
    /\ pending' = [pending EXCEPT ![c] = Nothing]
    /\ UNCHANGED <<now, config, cache, clientVars, endpointVars, commandVars, appVars>>

(***************************************************************************)
(* ClientMultiAPIs (app/services/api_clients.py).                          *)
(*                                                                         *)
(* A task is one coroutine running search_legifrance, search_judilibre or  *)
(* search_justice_back (op = "search") or get_*_token (op = "token").  It  *)
(* is suspended where the code awaits: on the semaphore ("acquire"), on    *)
(* the HTTP response ("http") and in asyncio.sleep ("sleep").  req tells   *)
(* which request _request_json_with_retry is working on.                   *)
(***************************************************************************)
Tasks == {"t1", "t2", "t3"}

\* asyncio.Semaphore(max_concurrent), max_concurrent: int = 10
max_concurrent == 10

\* depth of nested search_* calls at which the interpreter raises RecursionError
RecursionLimit == 2

\* While the coroutine sleeps, and once it has ended, last is what its latest
\* attempt ended with (a response with its status and headers, or a network error);
\* until is the time before which its pending asyncio.sleep does not return
IdleTask == [pc |-> "idle", op |-> None, api |-> None, req |-> None, attempt |-> 0,
             depth |-> 0, now0 |-> 0, bearer |-> Nothing, result |-> Nothing,
             last |-> Nothing, until |-> 0]

\* method of the request: the token exchange and search_legifrance POST, the others GET
Method(req, api) ==
    IF req = "token" \/ api = "legifrance" THEN "POST" ELSE "GET"

\* three attempts whatever the method
MaxRetries_AnyMethod(method, retry_non_idempotent) == 3

\* max_retries = 3; 1 for POST, PATCH and PUT unless retry_non_idempotent
MaxRetries(method, retry_non_idempotent) ==
    IF method \in {"POST", "PATCH", "PUT"} /\ ~retry_non_idempotent THEN 1 ELSE 3

\* the token exchange passes retry_non_idempotent=True, the searches do not
max_retries(t) ==
    MaxRetries(Method(task[t].req, task[t].api), task[t].req = "token")

\* a token is served from the cache whatever its expiry
TokenValid_IgnoreExpiry(api, t) ==
    /\ tokens[api] # Nothing
    /\ token_expiry[api] # Nothing

\* api_name in self.tokens and api_name in self.token_expiry and now < expiry
TokenValid(api, t) ==
    /\ tokens[api] # Nothing
    /\ token_expiry[api] # Nothing
    /\ t < token_expiry[api][1]

Max(a, b) == IF a >= b THEN a ELSE b

\* max(60, data.get('expires_in', 3600) - 300)
CacheSeconds(expires_in) ==
    Max(60, (IF expires_in = Nothing THEN 3600 ELSE expires_in[1]) - 300)

\* the JSON body {} parsed: a dictionary without keys
EmptyDict == <<>>

\* dict.get(key, default)
Get(d, key, default) == IF key \in DOMAIN d THEN d[key] ELSE default

RECURSIVE Pow2(_)
Pow2(n) == IF n = 0 THEN 1 ELSE 2 * Pow2(n - 1)

\* base_delay = 1
base_delay == 1

\* A Retry-After value is "" or <<"int", n>> (text that int() parses to n) or
\* <<"date", d>> (an HTTP-date naming second d) or <<"text">> (anything else).
\* _parse_retry_after(headers) called at second t; subsec tells whether
\* datetime.utcnow() has a non-zero fraction of a second at that moment, so that
\* (dt - now).total_seconds() lies strictly between d - t - 1 and d - t
_parse_retry_after(headers, t, subsec) ==
    LET val == Get(headers, "Retry-After", None) IN
    IF val = None \/ val = "" THEN 1
    ELSE IF val[1] = "int" THEN Max(1, val[2])
    ELSE IF val[1] = "date"
         THEN Max(1, IF subsec /\ val[2] - t >= 1 THEN val[2] - t - 1 ELSE val[2] - t)
    ELSE 1

\* base_delay * (2 ** attempt) + random.uniform(0, 0.25), in whole seconds: the
\* jitter is below one second
Backoff(attempt) == base_delay * Pow2(attempt)

\* truthiness of the parsed body in "status == 200 and data"
Truthy(data) == data # Nothing /\ data[1] # EmptyDict

Raise(t, error, last) ==
    task' = [task EXCEPT ![t].pc = "done", ![t].result = <<"raise", error>>,
                         ![t].last = last]

\* entry of search_*: _get_piste_token up to its first await, with the cached
\* token when it is still valid and with a token exchange otherwise
EnterSearch(t, api, depth, toks) ==
    IF toks[api] # Nothing /\ token_expiry[api] # Nothing /\ now < token_expiry[api][1]
    THEN task' = [task EXCEPT ![t] =
            [pc |-> "acquire", op |-> "search", api |-> api, req |-> "search",
             attempt |-> 0, depth |-> depth, now0 |-> now, bearer |-> toks[api],
             result |-> Nothing, last |-> Nothing, until |-> 0]]
    ELSE task' = [task EXCEPT ![t] =
            [pc |-> "acquire", op |-> "search", api |-> api, req |-> "token",
             attempt |-> 0, depth |-> depth, now0 |-> now, bearer |-> Nothing,
             result |-> Nothing, last |-> Nothing, until |-> 0]]

\* a token is taken from any response that has a body
TokenGranted_AnyStatus(status, data) == Truthy(data)

\* if status == 200 and data: the response of the token endpoint grants a token
TokenGranted(status, data) == status = 200 /\ Truthy(data)

\* a caller that drops the cached entry of the service when its exchange fails
AfterRequest_DropOnFailure(t, status, data, last) ==
    LET api == task[t].api IN
    IF task[t].req = "token"
    THEN IF TokenGranted(status, data)
         THEN /\ tokens' = [tokens EXCEPT ![api] = Some(data[1].access_token)]
              /\ token_expiry' = [token_expiry EXCEPT
                    ![api] = Some(task[t].now0 + CacheSeconds(data[1].expires_in))]
              /\ IF task[t].op = "token"
                 THEN task' = [task EXCEPT ![t].pc = "done", ![t].last = last,
                                  ![t].result = <<"return", data[1].access_token>>]
                 ELSE task' = [task EXCEPT ![t].pc = "acquire", ![t].req = "search",
                                  ![t].attempt = 0, ![t].last = Nothing,
                                  ![t].bearer = Some(data[1].access_token)]
         ELSE /\ Raise(t, <<"Erreur auth", status>>, last)
              /\ tokens' = [tokens EXCEPT ![api] = Nothing]
              /\ token_expiry' = [token_expiry EXCEPT ![api] = Nothing]
    ELSE IF status = 200 /\ Truthy(data)
         THEN /\ task' = [task EXCEPT ![t].pc = "done", ![t].last = last,
                             ![t].result = <<"return", data[1]>>]
              /\ UNCHANGED <<tokens, token_expiry>>
    ELSE IF status = 401
         THEN /\ tokens' = [tokens EXCEPT ![api] = Nothing]
              /\ UNCHANGED token_expiry
              /\ IF task[t].depth + 1 > RecursionLimit
                 THEN Raise(t, <<"RecursionError">>, last)
                 ELSE EnterSearch(t, api, task[t].depth + 1, tokens')
    ELSE /\ Raise(t, <<"Erreur recherche", status>>, last)
         /\ UNCHANGED <<tokens, token_expiry>>

\* what the caller of _request_json_with_retry does with (status, data):
\* _get_piste_token lines 123-131, search_* lines 236-244, 262-270, 289-297
AfterRequest(t, status, data, last) ==
    LET api == task[t].api IN
    IF task[t].req = "token"
    THEN IF TokenGranted(status, data)
         THEN /\ tokens' = [tokens EXCEPT ![api] = Some(data[1].access_token)]
              /\ token_expiry' = [token_expiry EXCEPT
                    ![api] = Some(task[t].now0 + CacheSeconds(data[1].expires_in))]
              /\ IF task[t].op = "token"
                 THEN task' = [task EXCEPT ![t].pc = "done", ![t].last = last,
                                  ![t].result = <<"return", data[1].access_token>>]
                 ELSE task' = [task EXCEPT ![t].pc = "acquire", ![t].req = "search",
                                  ![t].attempt = 0, ![t].last = Nothing,
                                  ![t].bearer = Some(data[1].access_token)]
         ELSE /\ Raise(t, <<"Erreur auth", status>>, last)
              /\ UNCHANGED <<tokens, token_expiry>>
    ELSE IF status = 200 /\ Truthy(data)
         THEN /\ task' = [task EXCEPT ![t].pc = "done", ![t].last = last,
                             ![t].result = <<"return", data[1]>>]
              /\ UNCHANGED <<tokens, token_expiry>>
    ELSE IF status = 401
         THEN /\ tokens' = [tokens EXCEPT ![api] = Nothing]
              /\ UNCHANGED token_expiry
              /\ IF task[t].depth + 1 > RecursionLimit
                 THEN Raise(t, <<"RecursionError">>, last)
                 ELSE EnterSearch(t, api, task[t].depth + 1, tokens')
    ELSE /\ Raise(t, <<"Erreur recherche", status>>, last)
         /\ UNCHANGED <<tokens, token_expiry>>

\* a request handler calls search_legifrance / search_judilibre / search_justice_back
StartSearch(t, api) ==
    /\ UNCHANGED <<engineVars, endpointVars, commandVars, appVars>>
    /\ task[t].pc = "idle"
    /\ EnterSearch(t, api, 0, tokens)
    /\ UNCHANGED <<now, tokens, token_expiry, semaphore, issued>>

\* get_legifrance_token / get_justice_back_token / _get_piste_token called directly
StartToken(t, api) ==
    /\ UNCHANGED <<engineVars, endpointVars, commandVars, appVars>>
    /\ task[t].pc = "idle"
    /\ IF TokenValid(api, now)
       THEN task' = [task EXCEPT ![t] = [IdleTask EXCEPT !.pc = "done", !.op = "token",
                        !.api = api, !.now0 = now,
                        !.result = <<"return", tokens[api][1]>>]]
       ELSE task' = [task EXCEPT ![t] = [IdleTask EXCEPT !.pc = "acquire",
                        !.op = "token", !.api = api, !.req = "token", !.now0 = now]]
    /\ UNCHANGED <<now, tokens, token_expiry, semaphore, issued>>

\* self.config of ClientMultiAPIs: os.getenv(name, default) gives the default when
\* the variable is unset and "" when it is set to nothing
PisteDefaults ==
    [client_id |-> "5518da20-9f9c-48ee-849b-1c0af46be1ff",
     client_secret |-> "19048806-5b4e-41cc-b419-ee1d7241151e",
     token_url |-> "https://sandbox-oauth.piste.gouv.fr/api/oauth/token"]

\* the URL of the request _request_json_with_retry is working on is empty; only
\* the token URL comes from the environment alone, the search URLs end in a path
UrlMissing(t) ==
    task[t].req = "token" /\ piste_config[task[t].api].token_url = ""

\* entering the request without waiting for a permit
Acquire_NoWait(t) ==
    /\ UNCHANGED <<engineVars, endpointVars, commandVars, appVars>>
    /\ task[t].pc = "acquire"
    /\ semaphore' = semaphore - 1
    /\ task' = [task EXCEPT ![t].pc = "http"]
    /\ UNCHANGED <<now, tokens, token_expiry, issued>>

\* async with self.semaphore, then session.request is sent
Acquire(t) ==
    /\ UNCHANGED <<engineVars, endpointVars, commandVars, appVars>>
    /\ task[t].pc = "acquire"
    /\ semaphore > 0
    /\ ~UrlMissing(t)
    /\ semaphore' = semaphore - 1
    /\ task' = [task EXCEPT ![t].pc = "http"]
    /\ UNCHANGED <<now, tokens, token_expiry, issued>>

\* what an attempt that received a response leaves in task[t].last
Received(t, status, headers) ==
    Some([kind |-> "response", status |-> status, headers |-> headers,
          attempt |-> task[t].attempt, at |-> now])

\* the same with the sleeps taken after the permit was given back
RespondWith_SleepWithoutPermit(t, status, headers, subsec, data) ==
    /\ UNCHANGED <<engineVars, endpointVars, commandVars, appVars>>
    /\ task[t].pc = "http"
    /\ IF status = 429
       THEN /\ task' = [task EXCEPT
                    ![t].pc = "sleep",
                    ![t].last = Received(t, status, headers),
                    ![t].until = now + _parse_retry_after(headers, now, subsec)]
            /\ semaphore' = semaphore + 1
            /\ UNCHANGED <<tokens, token_expiry>>
       ELSE IF 500 <= status /\ status < 600 /\ task[t].attempt < max_retries(t) - 1
       THEN /\ task' = [task EXCEPT
                    ![t].pc = "sleep",
                    ![t].last = Received(t, status, headers),
                    ![t].until = now + Backoff(task[t].attempt)]
            /\ semaphore' = semaphore + 1
            /\ UNCHANGED <<tokens, token_expiry>>
       ELSE /\ semaphore' = semaphore + 1
            /\ AfterRequest(t, status, data, Received(t, status, headers))
    /\ UNCHANGED now

\* a response arrives: 429 and, before the last attempt, 5xx go to sleep with the
\* permit held; every other response is returned to the caller
RespondWith(t, status, headers, subsec, data) ==
    /\ UNCHANGED <<engineVars, endpointVars, commandVars, appVars>>
    /\ task[t].pc = "http"
    /\ IF status = 429
       THEN /\ task' = [task EXCEPT
                    ![t].pc = "sleep",
                    ![t].last = Received(t, status, headers),
                    ![t].until = now + _parse_retry_after(headers, now, subsec)]
            /\ UNCHANGED <<tokens, token_expiry, semaphore>>
       ELSE IF 500 <= status /\ status < 600 /\ task[t].attempt < max_retries(t) - 1
       THEN /\ task' = [task EXCEPT
                    ![t].pc = "sleep",
                    ![t].last = Received(t, status, headers),
                    ![t].until = now + Backoff(task[t].attempt)]
            /\ UNCHANGED <<tokens, token_expiry, semaphore>>
       ELSE /\ semaphore' = semaphore + 1
            /\ AfterRequest(t, status, data, Received(t, status, headers))
    /\ UNCHANGED now

\* A content-type header is [mime, charset]: the text mime, followed by
\* "; charset=<charset>" unless charset is None.
\* 'application/json' in ctype or ctype.endswith('+json')
IsJsonType(ctype) ==
    \/ ctype.mime = "application/json"
    \/ ctype.mime = "application/hal+json" /\ ctype.charset = None

\* the encodings Python has a codec for
Codecs == {"utf-8", "latin-1"}

\* raw.decode(charset, errors='replace') for a body given as its chunks: "\\xff"
\* is a byte that is invalid in utf-8
decode(raw, charset) ==
    [i \in 1..Len(raw) |->
        IF raw[i] = "\\xff" THEN (IF charset = "utf-8" THEN "U+FFFD" ELSE "ÿ") ELSE raw[i]]

\* json.loads(text): the parsed value (a replacement character inside a string is
\* a character like any other), JSONDecodeError for a text that is no JSON,
\* RecursionError for arrays nested deeper than the interpreter's recursion limit
json_loads(text) ==
    CASE Strip(text) = <<"{\"results\": [\"r1\"]}">> -> <<"return", [results |-> <<"r1">>]>>
      [] Strip(text) = <<"{\"results\": [\"", "U+FFFD", "\"]}">> ->
            <<"return", [results |-> <<"U+FFFD">>]>>
      [] Strip(text) = <<"{\"results\": [\"", "ÿ", "\"]}">> ->
            <<"return", [results |-> <<"ÿ">>]>>
      [] Strip(text) = <<"{}">> -> <<"return", EmptyDict>>
      [] Strip(text) = <<"[[[[", "...", "]]]]">> -> <<"raise", "RecursionError">>
      [] OTHER -> <<"raise", "JSONDecodeError">>

\* the reading of the body in _request_json_with_retry: the pair (json_data,
\* text_content) it goes on with, or the exception that leaves it.  bytes.decode
\* looks the codec up only for a body that is not empty
ReadBody(headers, raw) ==
    LET ctype == Get(headers, "content-type", [mime |-> "", charset |-> None])
        charset == IF ctype.charset = None THEN "utf-8" ELSE ctype.charset
    IN IF raw # <<>> /\ charset \notin Codecs
       THEN <<"raise", <<"LookupError", charset>>>>
       ELSE LET text_content == decode(raw, charset) IN
            IF IsJsonType(ctype) /\ Strip(text_content) # <<>>
            THEN LET parsed == json_loads(text_content) IN
                 IF parsed[1] = "return" THEN <<"return", Some(parsed[2]), text_content>>
                 ELSE IF parsed[2] = "JSONDecodeError"
                 THEN <<"return", Nothing, text_content>>
                 ELSE <<"raise", <<parsed[2], "json.loads">>>>
            ELSE <<"return", Nothing, text_content>>

\* a response to a search arrives with its content type and its raw body
RespondBody(t, status, headers, raw) ==
    /\ task[t].pc = "http"
    /\ task[t].req = "search"
    /\ LET r == ReadBody(headers, raw) IN
       IF r[1] = "raise"
       THEN /\ semaphore' = semaphore + 1
            /\ Raise(t, r[2], Received(t, status, headers))
            /\ UNCHANGED <<now, tokens, token_expiry>>
            /\ UNCHANGED <<engineVars, endpointVars, commandVars, appVars>>
       ELSE RespondWith(t, status, headers, FALSE, r[2])
    /\ UNCHANGED issued

\* a response without a Retry-After header
Respond(t, status, data) == RespondWith(t, status, EmptyDict, FALSE, data)

\* the token endpoint answers 200 with a new access token
RespondToken(t, expires_in) ==
    /\ task[t].pc = "http"
    /\ task[t].req = "token"
    /\ issued' = [issued EXCEPT ![task[t].api] = @ + 1]
    /\ Respond(t, 200, Some([access_token |->
                                [api |-> task[t].api, n |-> issued[task[t].api] + 1,
                                 iat |-> now,
                                 expires_in |-> expires_in],
                             expires_in |-> expires_in]))

\* the upstream answers 429, with or without a Retry-After header
TooManyRequests(t, headers, subsec) ==
    /\ RespondWith(t, 429, headers, subsec, Nothing)
    /\ UNCHANGED issued

\* any other answer of the token endpoint or of a search endpoint
RespondOther(t, status, data) ==
    /\ task[t].pc = "http"
    /\ ~(task[t].req = "token" /\ status = 200 /\ Truthy(data))
    /\ Respond(t, status, data)
    /\ UNCHANGED issued

\* what an attempt that ended in a network error leaves in task[t].last
Failure(t) ==
    Some([kind |-> "error", status |-> None, headers |-> EmptyDict,
          attempt |-> task[t].attempt, at |-> now])

\* aiohttp.ClientError or asyncio.TimeoutError: sleep and retry, or raise on the
\* last attempt
NetworkError(t) ==
    /\ UNCHANGED <<engineVars, endpointVars, commandVars, appVars>>
    /\ task[t].pc = "http"
    /\ IF task[t].attempt < max_retries(t) - 1
       THEN /\ task' = [task EXCEPT ![t].pc = "sleep", ![t].last = Failure(t),
                                    ![t].until = now + Backoff(task[t].attempt)]
            /\ UNCHANGED semaphore
       ELSE /\ semaphore' = semaphore + 1
            /\ Raise(t, <<"ClientError">>, Failure(t))
    /\ UNCHANGED <<now, tokens, token_expiry, issued>>

\* session.request with an empty URL: aiohttp raises InvalidURL, a ClientError,
\* inside the semaphore and before anything is sent; it is handled as any other
\* network error
InvalidURL(t) ==
    /\ UNCHANGED <<engineVars, endpointVars, commandVars, appVars>>
    /\ task[t].pc = "acquire"
    /\ semaphore > 0
    /\ UrlMissing(t)
    /\ IF task[t].attempt < max_retries(t) - 1
       THEN /\ task' = [task EXCEPT ![t].pc = "sleep", ![t].last = Failure(t),
                                    ![t].until = now + Backoff(task[t].attempt)]
            /\ semaphore' = semaphore - 1
       ELSE /\ Raise(t, <<"InvalidURL">>, Failure(t))
            /\ UNCHANGED semaphore
    /\ UNCHANGED <<now, tokens, token_expiry, issued>>

\* the loop that, its attempts used up, hands the caller the answer it slept on
Wake_ReturnLast(t) ==
    /\ UNCHANGED <<engineVars, endpointVars, commandVars, appVars>>
    /\ task[t].pc = "sleep"
    /\ semaphore' = semaphore + 1
    /\ IF task[t].attempt + 1 < max_retries(t)
       THEN /\ task' = [task EXCEPT ![t].pc = "acquire", ![t].attempt = @ + 1,
                                    ![t].last = Nothing, ![t].until = 0]
            /\ UNCHANGED <<tokens, token_expiry>>
       ELSE AfterRequest(t, IF task[t].last[1].kind = "response"
                            THEN task[t].last[1].status ELSE 500,
                         Nothing, task[t].last)
    /\ UNCHANGED <<now, issued>>

\* the loop continues after the sleep with the permit of the attempt still held
Wake_KeepPermit(t) ==
    /\ UNCHANGED <<engineVars, endpointVars, commandVars, appVars>>
    /\ task[t].pc = "sleep"
    /\ UNCHANGED semaphore
    /\ IF task[t].attempt + 1 < max_retries(t)
       THEN /\ task' = [task EXCEPT ![t].pc = "acquire", ![t].attempt = @ + 1,
                                    ![t].last = Nothing, ![t].until = 0]
            /\ UNCHANGED <<tokens, token_expiry>>
       ELSE AfterRequest(t, 500, Nothing, task[t].last)
    /\ UNCHANGED <<now, issued>>

\* asyncio.sleep returns and the loop continues: the permit is released, and the
\* request is either attempted again or, the attempts used up, given up with
\* (500, None, "Erreur inattendue")
Wake(t) ==
    /\ UNCHANGED <<engineVars, endpointVars, commandVars, appVars>>
    /\ task[t].pc = "sleep"
    /\ semaphore' = semaphore + 1
    /\ IF task[t].attempt + 1 < max_retries(t)
       THEN /\ task' = [task EXCEPT ![t].pc = "acquire", ![t].attempt = @ + 1,
                                    ![t].last = Nothing, ![t].until = 0]
            /\ UNCHANGED <<tokens, token_expiry>>
       ELSE AfterRequest(t, 500, Nothing, task[t].last)
    /\ UNCHANGED <<now, issued>>

\* the same step on the clock: asyncio.sleep(delay) does not return before the
\* delay has passed
WakeAfterSleep(t) ==
    /\ now >= task[t].until
    /\ Wake(t)

\* the coroutine has returned or raised and its caller is gone
Finish(t) ==
    /\ UNCHANGED <<engineVars, endpointVars, commandVars, appVars>>
    /\ task[t].pc = "done"
    /\ task' = [task EXCEPT ![t] = IdleTask]
    /\ UNCHANGED <<now, tokens, token_expiry, semaphore, issued>>

ClientInit ==
    /\ tokens = [a \in Services |-> Nothing]
    /\ token_expiry = [a \in Services |-> Nothing]
    /\ semaphore = max_concurrent
    /\ issued = [a \in Services |-> 0]
    /\ task = [t \in Tasks |-> IdleTask]
    /\ piste_config = [a \in Services |-> PisteDefaults]

(***************************************************************************)
(* The fan-out endpoint /api/recherche-complete (app/main.py).             *)
(* Texts are sequences of tokens; Python's None is the string "None".      *)
(***************************************************************************)
\* the fixed order in which recherche_complete_endpoint appends its coroutines
Priority == <<"legifrance", "judilibre", "justice_back">>

TaskOf(i) == <<"t1", "t2", "t3">>[i]

RECURSIVE Filter(_, _)
Filter(seq, keep) ==
    IF seq = <<>> THEN <<>>
    ELSE IF Head(seq) \in keep THEN <<Head(seq)>> \o Filter(Tail(seq), keep)
    ELSE Filter(Tail(seq), keep)

\* tasks = [...]: one coroutine per API named in request.include_apis
TasksFor(include_apis) == Filter(Priority, include_apis)

IsException(r) == r[1] = "raise"

\* asyncio.gather(*tasks, return_exceptions=...) once every task has ended
\* the variant that lets the first exception propagate to the awaiting handler
gather_propagate(results) ==
    IF \E i \in 1..Len(results) : IsException(results[i])
    THEN LET first == CHOOSE i \in 1..Len(results) :
                /\ IsException(results[i])
                /\ \A j \in 1..(i - 1) : ~IsException(results[j])
         IN <<"raise", results[first][2]>>
    ELSE <<"return", results>>

\* asyncio.gather(*tasks, return_exceptions=True): exceptions are results
gather(results) == <<"return", results>>

FormatLegifrance(r) ==
    [titre |-> Get(r, "title", <<"Sans titre">>),
     nature |-> Get(r, "nature", "Inconnue"),
     date |-> Get(r, "date", "Date inconnue"),
     id |-> Get(r, "id", None),
     resume |-> IF Get(r, "content", <<>>) # <<>>
                THEN Append(Prefix(r.content, 150), "...")
                ELSE <<"Aucun résumé">>]

\* a or b, for a text or a dictionary: None, '' and {} are all the empty value <<>>
Or(a, b) == IF a = <<>> THEN b ELSE a

FormatJudilibre(item) ==
    [titre |-> <<"Arrêt", Get(item, "number", "N/A")>>,
     juridiction |-> Get(item, "jurisdiction", "Inconnue"),
     date |-> Get(item, "creation", Get(item, "date", "Date inconnue")),
     chambre |-> Get(Or(Get(item, "chamber", Nothing), EmptyDict), "name", "N/A"),
     formation |-> Get(item, "formation", "N/A"),
     theme |-> Get(item, "theme", "N/A"),
     resume |-> Append(Prefix(Or(Get(item, "solution", Nothing),
                                 <<"Aucun résumé disponible">>), 200),
                       "..."),
     fiabilite |-> <<"U+2705", "Source officielle Cour de Cassation">>,
     source |-> <<"judilibre", Get(item, "id", Get(item, "number", "unknown"))>>]

formater_resultats_judilibre_func(resultats) ==
    LET items == Prefix(Get(resultats, "results", <<>>), 5) IN
    [i \in 1..Len(items) |-> FormatJudilibre(items[i])]

\* attributes.get(k1) or attributes.get(k2) or ...: the first value that is true,
\* and the value of the last key (None when absent) when none is; None and the
\* empty string are false
FirstOf(attributes, keys) ==
    IF \E i \in 1..Len(keys) : IsTrue(Get(attributes, keys[i], None))
    THEN attributes[keys[CHOOSE i \in 1..Len(keys) :
                            /\ IsTrue(Get(attributes, keys[i], None))
                            /\ \A j \in 1..(i - 1) :
                                    ~IsTrue(Get(attributes, keys[j], None))]]
    ELSE Get(attributes, keys[Len(keys)], None)

FormatLieu(item) ==
    LET attributes == Get(item, "attributes", EmptyDict) IN
    [id |-> Get(item, "id", None),
     titre |-> Get(attributes, "title", "Lieu de justice"),
     type |-> "Tribunal",
     adresse |-> Get(attributes, "field_ldj_adresse", "Non renseigné"),
     telephone |-> Get(attributes, "field_ldj_telephone", "Non renseigné"),
     courriel |-> Get(attributes, "field_ldj_courriel", "Non renseigné"),
     horaire |-> Get(attributes, "field_ldj_horaire", "Non renseigné"),
     gps |-> [lat |-> FirstOf(attributes, <<"field_ldj_gps_lat", "field_ldj_gps_latitude",
                                            "field_ldj_lat">>),
              lng |-> FirstOf(attributes, <<"field_ldj_gps_lgn", "field_ldj_gps_lng",
                                            "field_ldj_gps_long", "field_ldj_lng",
                                            "field_ldj_long">>)],
     source |-> <<"justice_back", Get(item, "id", "unknown")>>]

formater_lieux_justice_func(resultats) ==
    LET items == Get(resultats, "data", <<>>)
        lieux == [i \in 1..Len(items) |-> FormatLieu(items[i])]
    IN
    [lieux |-> lieux, total |-> Len(lieux)]

\* the list a service's section holds when its task returned the dictionary data
Section(api, data) ==
    CASE api = "legifrance" ->
            LET items == Prefix(Get(data, "results", <<>>), 5) IN
            [i \in 1..Len(items) |-> FormatLegifrance(items[i])]
      [] api = "judilibre" -> formater_resultats_judilibre_func(data)
      [] api = "justice_back" -> Get(formater_lieux_justice_func(data), "lieux", <<>>)

CountKey(api) ==
    CASE api = "legifrance" -> "nombre_textes"
      [] api = "judilibre" -> "nombre_jurisprudence"
      [] api = "justice_back" -> "nombre_lieux"

\* the block with result_index advanced only past a result that was used
FormatStep_SkipOnError(st, api, results, apis_includes) ==
    IF api \in apis_includes /\ st.result_index < Len(results)
    THEN LET r == results[st.result_index + 1] IN
         IF IsException(r) THEN st
         ELSE [formatted |-> [st.formatted EXCEPT
                        ![api] = Section(api, r[2]),
                        !.analyse = [k \in DOMAIN @ \cup {CountKey(api)} |->
                                        IF k = CountKey(api) THEN Len(Section(api, r[2]))
                                        ELSE @[k]]],
               result_index |-> st.result_index + 1]
    ELSE st

\* one "if <api> in apis_includes and result_index < len(results)" block of
\* formater_resultats_complets_func: st = [formatted, result_index]
FormatStep(st, api, results, apis_includes) ==
    IF api \in apis_includes /\ st.result_index < Len(results)
    THEN LET r == results[st.result_index + 1]
             filled ==
                IF ~IsException(r)
                THEN [st.formatted EXCEPT
                        ![api] = Section(api, r[2]),
                        !.analyse = [k \in DOMAIN @ \cup {CountKey(api)} |->
                                        IF k = CountKey(api) THEN Len(Section(api, r[2]))
                                        ELSE @[k]]]
                ELSE st.formatted
         IN [formatted |-> filled,
             result_index |-> IF api = "justice_back" THEN st.result_index
                              ELSE st.result_index + 1]
    ELSE st

formater_resultats_complets_func(results, apis_includes, t) ==
    LET st0 == [formatted |-> [legifrance |-> <<>>, judilibre |-> <<>>,
                               justice_back |-> <<>>, analyse |-> [timestamp |-> t]],
                result_index |-> 0]
        st1 == FormatStep(st0, "legifrance", results, apis_includes)
        st2 == FormatStep(st1, "judilibre", results, apis_includes)
        st3 == FormatStep(st2, "justice_back", results, apis_includes)
    IN st3.formatted

\* A postal code is a text given as its sequence of characters, "LF" being a line
\* feed; a request field code_postal is Nothing (Python's None) or Some(text).
AsciiDigits == {"0", "1", "2", "3", "4", "5", "6", "7", "8", "9"}

\* \d in a str pattern matches every Unicode decimal digit: besides 0-9, here the
\* Arabic-Indic digits 0, 1, 5, 7 and the fullwidth digits 0, 1, 5, 7, each
\* written as its code point
Digits ==
    AsciiDigits \cup {"U+0660", "U+0661", "U+0665", "U+0667",
                      "U+FF10", "U+FF11", "U+FF15", "U+FF17"}

\* re.match(r'^\d{5}$', code_postal): five digits, then the end of the text or a
\* line feed that ends the text
MatchFiveDigits(code_postal) ==
    /\ Len(code_postal) >= 5
    /\ \A i \in 1..5 : code_postal[i] \in Digits
    /\ \/ Len(code_postal) = 5
       \/ Len(code_postal) = 6 /\ code_postal[6] = "LF"

\* justice_params of recherche_complete_endpoint: the parameters of the
\* search_justice_back call
JusticeParams(code_postal) ==
    IF code_postal # Nothing /\ MatchFiveDigits(code_postal[1])
    THEN [k \in {"page[limit]", "filter[code_postal]"} |->
            IF k = "page[limit]" THEN <<8>> ELSE code_postal[1]]
    ELSE [k \in {"page[limit]"} |-> <<8>>]

\* request is the HTTP request being served: the endpoint, its inputs, the parameters
\* of its search_justice_back call if it makes one (sent), and its response
IdleRequest == [pc |-> "idle", endpoint |-> None, include_apis |-> {},
                code_postal |-> Nothing, prejudices |-> <<>>, tasks |-> <<>>,
                sent |-> Nothing, response |-> Nothing]

\* POST /api/recherche-complete: the coroutines are created and handed to gather
RechercheCompleteWith(include_apis, code_postal) ==
    /\ request.pc = "idle"
    /\ \A t \in Tasks : task[t].pc = "idle"
    /\ request' = [pc |-> "gather", endpoint |-> "recherche-complete",
                   include_apis |-> include_apis, code_postal |-> code_postal,
                   prejudices |-> <<>>,
                   tasks |-> TasksFor(include_apis),
                   sent |-> IF "justice_back" \in include_apis
                            THEN Some(JusticeParams(code_postal)) ELSE Nothing,
                   response |-> Nothing]
    /\ UNCHANGED <<now, engineVars, clientVars, commandVars, appVars>>

\* the same request without a code_postal
RechercheComplete(include_apis) == RechercheCompleteWith(include_apis, Nothing)

\* GET /api/lieux-justice?code_postal=...: validation, then one search_justice_back
LieuxJustice(code_postal) ==
    /\ request.pc = "idle"
    /\ \A t \in Tasks : task[t].pc = "idle"
    /\ request' =
        IF code_postal = <<>>
        THEN [IdleRequest EXCEPT !.pc = "done", !.endpoint = "lieux-justice",
                                 !.code_postal = Some(code_postal),
                                 !.response = Some(<<400, "Le code postal est requis">>)]
        ELSE IF ~MatchFiveDigits(code_postal)
        THEN [IdleRequest EXCEPT !.pc = "done", !.endpoint = "lieux-justice",
                                 !.code_postal = Some(code_postal),
                                 !.response =
                                    Some(<<400, "Code postal invalide - doit contenir 5 chiffres">>)]
        ELSE [IdleRequest EXCEPT !.pc = "gather", !.endpoint = "lieux-justice",
                                 !.code_postal = Some(code_postal),
                                 !.tasks = <<"justice_back">>,
                                 !.sent = Some([k \in {"page[limit]", "filter[code_postal]"} |->
                                            IF k = "page[limit]" THEN <<15>> ELSE code_postal])]
    /\ UNCHANGED <<now, engineVars, clientVars, commandVars, appVars>>

\* the event loop starts the i-th coroutine the handler awaits
StartGathered(i) ==
    /\ request.pc = "gather"
    /\ i \in 1..Len(request.tasks)
    /\ StartSearch(TaskOf(i), request.tasks[i])

\* every coroutine has ended: gather returns and the handler answers
Respond200(results) ==
    <<200, formater_resultats_complets_func(results, request.include_apis, now)>>

Gathered ==
    /\ request.pc = "gather"
    /\ request.endpoint = "recherche-complete"
    /\ \A i \in 1..Len(request.tasks) : task[TaskOf(i)].pc = "done"
    /\ LET results == [i \in 1..Len(request.tasks) |-> task[TaskOf(i)].result]
           g == gather(results)
       IN request' = [request EXCEPT
            !.pc = "done",
            !.response = IF g[1] = "raise"
                         THEN Some(<<500, "Erreur lors de la recherche multi-APIs">>)
                         ELSE Some(Respond200(g[2]))]
    /\ UNCHANGED <<now, engineVars, clientVars, commandVars, appVars>>

\* lieux_justice_endpoint: search_justice_back has returned or raised
LieuxReturned ==
    /\ request.pc = "gather"
    /\ request.endpoint = "lieux-justice"
    /\ task[TaskOf(1)].pc = "done"
    /\ request' = [request EXCEPT
            !.pc = "done",
            !.response =
                IF IsException(task[TaskOf(1)].result)
                THEN Some(<<500, "Erreur lors de la recherche des lieux de justice">>)
                ELSE Some(<<200, formater_lieux_justice_func(task[TaskOf(1)].result[2])>>)]
    /\ UNCHANGED <<now, engineVars, clientVars, commandVars, appVars>>

\* POST /api/analyser-situation: prejudices are the categories analyser_description
\* detected, in the order of the keys of requetes; one search_judilibre coroutine
\* per category is created and handed to gather
AnalyserSituation(prejudices, code_postal) ==
    /\ request.pc = "idle"
    /\ \A t \in Tasks : task[t].pc = "idle"
    /\ Len(prejudices) < Cardinality(Tasks)
    /\ request' = [IdleRequest EXCEPT
            !.pc = "gather", !.endpoint = "analyser-situation",
            !.code_postal = code_postal, !.prejudices = prejudices,
            !.tasks = [i \in 1..Len(prejudices) |-> "judilibre"]]
    /\ UNCHANGED <<now, engineVars, clientVars, commandVars, appVars>>

\* jurisprudence_par_prejudice: the formatted decisions of each category, or the
\* error entry when its coroutine raised
JurisprudenceParPrejudice(prejudices, results) ==
    [p \in {prejudices[i] : i \in 1..Len(prejudices)} |->
        LET i == CHOOSE j \in 1..Len(prejudices) : prejudices[j] = p IN
        IF IsException(results[i]) THEN [erreur |-> "Erreur lors de la recherche"]
        ELSE formater_resultats_judilibre_func(results[i][2])]

AnalyseResponse(ressources_locales) ==
    LET results == [i \in 1..Len(request.tasks) |-> task[TaskOf(i)].result] IN
    Some(<<200, [jurisprudence_par_prejudice |->
                    JurisprudenceParPrejudice(request.prejudices, results),
                 ressources_locales |-> ressources_locales]>>)

\* the coroutine of the search for local resources
LocalTask == TaskOf(Cardinality(Tasks))

\* gather has returned; if request.code_postal: the handler awaits
\* search_justice_back with the code as it was given, otherwise it answers
AnalyseGathered ==
    /\ request.pc = "gather"
    /\ request.endpoint = "analyser-situation"
    /\ \A i \in 1..Len(request.tasks) : task[TaskOf(i)].pc = "done"
    /\ IF request.code_postal # Nothing /\ request.code_postal[1] # <<>>
       THEN /\ request' = [request EXCEPT
                    !.pc = "local",
                    !.sent = Some([k \in {"page[limit]", "filter[code_postal]"} |->
                                IF k = "page[limit]" THEN <<5>>
                                ELSE request.code_postal[1]])]
            /\ task[LocalTask].pc = "idle"
            /\ EnterSearch(LocalTask, "justice_back", 0, tokens)
            /\ UNCHANGED <<tokens, token_expiry, semaphore, issued>>
       ELSE /\ request' = [request EXCEPT
                    !.pc = "done", !.response = AnalyseResponse(EmptyDict)]
            /\ UNCHANGED clientVars
    /\ UNCHANGED <<now, engineVars, commandVars, appVars>>

\* search_justice_back has returned or raised: the handler answers
AnalyseLocalReturned ==
    /\ request.pc = "local"
    /\ task[LocalTask].pc = "done"
    /\ request' = [request EXCEPT
            !.pc = "done",
            !.response = AnalyseResponse(
                IF IsException(task[LocalTask].result)
                THEN [erreur |-> "Erreur lors de la recherche des ressources locales"]
                ELSE formater_lieux_justice_func(task[LocalTask].result[2]))]
    /\ UNCHANGED <<now, engineVars, clientVars, commandVars, appVars>>

EndpointInit == request = IdleRequest

(***************************************************************************)
(* The command python -m app.services.piste_oauth                          *)
(* (app/services/piste_oauth.py).  CFG is the configuration object of      *)
(* app/config.py: MODE_DEMO and, per service, the token URL and the        *)
(* client credentials; a setting that is missing is "" or None.            *)
(***************************************************************************)
\* the keys of the dict build_service_settings returns, in insertion order
available == <<"legifrance", "judilibre", "justice_back">>

\* build_service_settings: one ServiceSettings per service, read from CFG
build_service_settings(cfg) ==
    [a \in Services |->
        [name |-> a, token_url |-> cfg.services[a].token_url,
         client_id |-> cfg.services[a].client_id,
         client_secret |-> cfg.services[a].client_secret]]

\* not x, for a string or None
Not(x) == x = None \/ x = ""

\* the names of requested that are no key of available
Missing(requested) ==
    {requested[i] : i \in 1..Len(requested)} \ Services

\* _select_services: every service when nothing or "all" is requested, ValueError
\* when a requested name is unknown, the requested services in order otherwise
_select_services(requested, settings) ==
    IF requested = <<>> \/ \E i \in 1..Len(requested) : requested[i] = "all"
    THEN <<"return", [i \in 1..Len(available) |-> settings[available[i]]]>>
    ELSE IF Missing(requested) # {}
    THEN <<"raise", <<"ValueError", Missing(requested)>>>>
    ELSE <<"return", [i \in 1..Len(requested) |-> settings[requested[i]]]>>

\* a JSON value as response.json() returns it: an object is a Mapping, an array, a
\* string, a number and null are not
JsonObject(d) == [type |-> "object", value |-> d]
IsMapping(payload) == payload.type = "object"

\* PisteOAuthClient.fetch_token: posted tells whether session.post was called;
\* answer is what the token endpoint does with the request
fetch_token(settings, answer) ==
    IF Not(settings.token_url)
    THEN [posted |-> FALSE, result |-> <<"raise", <<"PisteOAuthError", "Aucune URL de token">>>>]
    ELSE IF Not(settings.client_id) \/ Not(settings.client_secret)
    THEN [posted |-> FALSE,
          result |-> <<"raise", <<"PisteOAuthError", "Identifiants OAuth manquants">>>>]
    ELSE IF answer.kind = "RequestException"
    THEN [posted |-> TRUE,
          result |-> <<"raise", <<"PisteOAuthError", "Requête OAuth échouée">>>>]
    ELSE IF answer.status_code >= 400
    THEN [posted |-> TRUE,
          result |-> <<"raise", <<"PisteOAuthError", "Erreur OAuth", answer.status_code>>>>]
    ELSE IF answer.json = Nothing
    THEN [posted |-> TRUE,
          result |-> <<"raise", <<"PisteOAuthError", "Réponse OAuth invalide">>>>]
    ELSE [posted |-> TRUE, result |-> <<"return", answer.json[1]>>]

\* the loop of main over chosen_services from position i on: st carries the
\* requests posted so far, the results dict and the lines printed; answers[i] is
\* what the token endpoint does with the request of the i-th pass.  Only
\* PisteOAuthError is caught: payload.get on a payload that is no Mapping raises
\* AttributeError, which ends the loop and the command
RECURSIVE FetchAll(_, _, _, _)
FetchAll(st, chosen, answers, i) ==
    IF i > Len(chosen) THEN st
    ELSE LET service == chosen[i]
             r == fetch_token(service, answers[i])
             posted == IF r.posted THEN Append(st.posted, service.name) ELSE st.posted
         IN IF r.result[1] = "raise"
            THEN FetchAll([st EXCEPT !.posted = posted,
                                     !.out = Append(@, <<service.name, "error">>)],
                          chosen, answers, i + 1)
            ELSE LET stored == [st EXCEPT
                        !.posted = posted,
                        !.results = [@ EXCEPT ![service.name] = Some(r.result[2])]]
                 IN IF st.argv[1].json
                    THEN FetchAll(stored, chosen, answers, i + 1)
                    ELSE IF ~IsMapping(r.result[2])
                    THEN [stored EXCEPT !.exit = <<"raise", <<"AttributeError">>>>]
                    ELSE FetchAll([stored EXCEPT
                                        !.out = Append(@, <<service.name, "token">>)],
                                  chosen, answers, i + 1)

\* the demonstration branch taken with --force instead of without it
DemoMode_Forced(cfg, argv) == cfg.MODE_DEMO /\ argv.force

\* getattr(CFG, "MODE_DEMO", False) and not args.force
DemoMode(cfg, argv) == cfg.MODE_DEMO /\ ~argv.force

IdleCommand == [pc |-> "idle", argv |-> Nothing, cfg |-> Nothing, posted |-> <<>>,
                results |-> [a \in Services |-> Nothing], out |-> <<>>,
                exit |-> Nothing]

\* main(argv) run to its end against token endpoints that answer as answers says.
\* With --json the payloads are unpacked with ** after the loop: a payload that is
\* no Mapping raises TypeError and nothing is printed
main(argv, cfg, answers) ==
    LET services == build_service_settings(cfg)
        chosen_services == _select_services(argv.services, services)
        started == [IdleCommand EXCEPT !.pc = "done", !.argv = Some(argv), !.cfg = Some(cfg)]
    IN IF chosen_services[1] = "raise"
       THEN [started EXCEPT !.exit = <<"raise", chosen_services[2]>>]
       ELSE IF DemoMode(cfg, argv)
       THEN [started EXCEPT
                !.out = <<<<"mode DEMO">>>> \o
                        [i \in 1..Len(chosen_services[2]) |->
                            <<"-", chosen_services[2][i].name>>],
                !.exit = <<"return", 0>>]
       ELSE LET st == FetchAll(started, chosen_services[2], answers, 1)
            IN IF st.exit # Nothing THEN st
               ELSE IF ~argv.json THEN [st EXCEPT !.exit = <<"return", 0>>]
               ELSE IF \E a \in Services :
                            st.results[a] # Nothing /\ ~IsMapping(st.results[a][1])
               THEN [st EXCEPT !.exit = <<"raise", <<"TypeError">>>>]
               ELSE [st EXCEPT !.out = Append(@, <<"json">>),
                               !.exit = <<"return", 0>>]

\* the command is run
Main(argv, cfg, answers) ==
    /\ command.pc = "idle"
    /\ command' = main(argv, cfg, answers)
    /\ UNCHANGED <<now, engineVars, clientVars, endpointVars, piste_config, appVars>>

\* the process has exited
Exit ==
    /\ command.pc = "done"
    /\ command' = IdleCommand
    /\ UNCHANGED <<now, engineVars, clientVars, endpointVars, piste_config, appVars>>

CommandIdle == command = IdleCommand

(***************************************************************************)
(* db.session() of app/database.py: one SQLAlchemy session per block, over *)
(* the table recherches_cachees.  A session holds the objects added and    *)
(* not yet flushed (new), the rows its transaction has inserted and not    *)
(* yet committed (flushed), and the state of its transaction: "none"       *)
(* before the first use and after a rollback, "active", or "inactive"      *)
(* after a flush that failed.                                              *)
(*                                                                         *)
(* A block is what the body of a "with db.session() as session" does:      *)
(* whether it runs a SELECT (reads), the rows it adds (writes), whether it *)
(* flushes them itself (flush), whether it handles the IntegrityError of   *)
(* that flush like _enregistrer_cache does (catch), and the exception its  *)
(* last statement raises, if any (raises).  No block of the repository     *)
(* commits by itself.                                                      *)
(***************************************************************************)
\* exceptions that "except Exception" catches; KeyboardInterrupt and
\* asyncio.CancelledError derive from BaseException only
ExceptionClasses == {"IntegrityError", "OperationalError", "ValueError"}

\* the flush of these objects violates uq_user_query_hash
Conflicts(rows, new) ==
    \/ \E w \in new : ~uq_user_query_hash(rows, w.user_id, w.query_hash)
    \/ \E v, w \in new : v # w /\ v.user_id = w.user_id /\ v.query_hash = w.query_hash

\* session = self.session_factory(): autoflush=False, autocommit=False
session_factory(rows) ==
    [rows |-> rows, new |-> {}, flushed |-> {}, transaction |-> "none",
     closed |-> FALSE, raised |-> Nothing]

\* session.rollback()
rollback(s) == [s EXCEPT !.new = {}, !.flushed = {}, !.transaction = "none"]

\* session.flush(): the INSERTs are sent; when one is refused the transaction is
\* rolled back, left inactive, and IntegrityError is raised
flush(s) ==
    IF Conflicts(s.rows \cup s.flushed, s.new)
    THEN [s EXCEPT !.new = {}, !.flushed = {}, !.transaction = "inactive",
                   !.raised = Some("IntegrityError")]
    ELSE [s EXCEPT !.new = {}, !.flushed = s.flushed \cup s.new]

\* session.commit(): flushes what is pending, then makes the inserted rows durable
commit(s) ==
    LET f == flush(s) IN
    IF f.raised # Nothing THEN f
    ELSE [f EXCEPT !.rows = f.rows \cup f.flushed, !.flushed = {},
                   !.transaction = "none"]

\* session.close(): releases the connection; what was not committed is discarded
close(s) == [rollback(s) EXCEPT !.closed = TRUE]

\* the statements of the block, run on a fresh session
Body(s, block) ==
    LET begun == [s EXCEPT !.new = block.writes,
                    !.transaction = IF block.reads \/ block.writes # {}
                                    THEN "active" ELSE "none"]
        sent == IF block.flush THEN flush(begun) ELSE begun
    IN IF sent.raised # Nothing
       THEN IF block.catch THEN [rollback(sent) EXCEPT !.raised = Nothing] ELSE sent
       ELSE [sent EXCEPT !.raised = block.raises]

\* the exit of the context manager that commits whatever the block did
session_CommitAlways(rows, block) ==
    LET s == Body(session_factory(rows), block)
        done == IF s.transaction = "active"
                THEN commit([s EXCEPT !.raised = Nothing]) ELSE s
    IN close([done EXCEPT !.raised = s.raised])

\* DatabaseManager.session around a block, from session_factory() to close()
session(rows, block) ==
    LET s == Body(session_factory(rows), block) IN
    IF s.raised # Nothing
    THEN IF s.raised[1] \in ExceptionClasses THEN close(rollback(s)) ELSE close(s)
    ELSE LET done == IF s.transaction = "active" THEN commit(s) ELSE s
         IN IF done.raised # Nothing THEN close(rollback(done)) ELSE close(done)

\* db records the last block: the table before it, what the block did, and how
\* the context manager left the session
NoSession == [block |-> Nothing, before |-> {}, body |-> Nothing, now_closed |-> FALSE,
              outcome |-> None]

\* with db.session() as session: <block>
DbSession(block) ==
    /\ LET s == session(cache, block) IN
        /\ cache' = s.rows
        /\ db' = [block |-> Some(block), before |-> cache,
                  body |-> Some(Body(session_factory(cache), block)),
                  now_closed |-> s.closed,
                  outcome |-> IF s.raised = Nothing THEN "return" ELSE s.raised[1]]
    /\ UNCHANGED <<now, config, ret, pending, clientVars, endpointVars, commandVars>>
    /\ UNCHANGED <<readiness_cache, probe, dossier>>

(***************************************************************************)
(* GET /api/ready (app/main.py) and ClientMultiAPIs.health_check: a        *)
(* coroutine that awaits get_legifrance_token, get_justice_back_token and  *)
(* search_judilibre one after the other.  probe is that coroutine: the     *)
(* call it is at (step), what it has collected (checks), whether it was    *)
(* answered from readiness_cache (cached) and what it returned (response). *)
(* The calls it awaits run as ProbeTask.                                   *)
(***************************************************************************)
\* readiness_cache = ReadinessCache(ttl_seconds=60)
ttl_seconds == 60

ProbeTask == "t1"

IdleProbe == [pc |-> "idle", kind |-> None, step |-> 0, checks |-> <<>>,
              cached |-> FALSE, response |-> Nothing, at |-> 0]

\* bool(token): an access token is truthy unless it is the empty text, which the
\* token records carry as serial n = 0
TruthyToken(token) == token.n > 0

\* a cache that hands out stored results of status ready only
ReadinessCache_get_ReadyOnly(rc, t) ==
    IF rc._cache # Nothing /\ rc._timestamp # Nothing
       /\ t - rc._timestamp[1] < ttl_seconds /\ rc._cache[1].status = "ready"
    THEN rc._cache ELSE Nothing

\* ReadinessCache.get: a stored result is a dict with keys, hence truthy, and so
\* is every datetime
ReadinessCache_get(rc, t) ==
    IF rc._cache # Nothing /\ rc._timestamp # Nothing
       /\ t - rc._timestamp[1] < ttl_seconds
    THEN rc._cache ELSE Nothing

\* ReadinessCache.set
ReadinessCache_set(data, t) == [_cache |-> Some(data), _timestamp |-> Some(t)]

\* all(checks.values())
AllChecks(checks) == \A i \in 1..Len(checks) : checks[i][2]

\* the key of checks and the call made at each step of api_readiness_check
ReadyKeys == <<"legifrance_auth", "justice_back_auth", "judilibre_connect">>
ProbeApis == <<"legifrance", "justice_back", "judilibre">>

\* api_readiness_check up to its first await: the answer of the cache, or the
\* start of the checks
ReadyStart ==
    /\ probe.pc = "idle"
    /\ task[ProbeTask].pc = "idle"
    /\ LET cached_result == ReadinessCache_get(readiness_cache, now) IN
       probe' = IF cached_result # Nothing
                THEN [IdleProbe EXCEPT !.pc = "done", !.kind = "ready", !.cached = TRUE,
                                       !.response = cached_result, !.at = now]
                ELSE [IdleProbe EXCEPT !.pc = "run", !.kind = "ready", !.step = 1,
                                       !.at = now]
    /\ UNCHANGED <<now, engineVars, clientVars, endpointVars, commandVars>>
    /\ UNCHANGED <<db, readiness_cache, dossier>>

\* the coroutine makes the call of its step
ProbeCall ==
    /\ probe.pc = "run"
    /\ IF probe.step < 3
       THEN StartToken(ProbeTask, ProbeApis[probe.step])
       ELSE StartSearch(ProbeTask, "judilibre")

\* the awaited call of api_readiness_check has returned or raised: the check is
\* recorded and the next call made, or the result is built, stored and returned
ReadyCollect ==
    /\ probe.pc = "run"
    /\ probe.kind = "ready"
    /\ task[ProbeTask].pc = "done"
    /\ LET r == task[ProbeTask].result
           checks == Append(probe.checks,
                        <<ReadyKeys[probe.step],
                          IF probe.step < 3 THEN TruthyToken(r[2]) ELSE TRUE>>)
           failed == [status |-> "not_ready", checks |-> probe.checks,
                      error |-> Some(r[2]), timestamp |-> now]
           result == [status |-> IF AllChecks(checks) THEN "ready" ELSE "degraded",
                      checks |-> checks, error |-> Nothing, timestamp |-> now]
       IN IF IsException(r)
          THEN /\ probe' = [probe EXCEPT !.pc = "done", !.response = Some(failed)]
               /\ readiness_cache' = ReadinessCache_set(failed, now)
          ELSE IF probe.step = 3
          THEN /\ probe' = [probe EXCEPT !.pc = "done", !.checks = checks,
                                         !.response = Some(result)]
               /\ readiness_cache' = ReadinessCache_set(result, now)
          ELSE /\ probe' = [probe EXCEPT !.step = @ + 1, !.checks = checks]
               /\ UNCHANGED readiness_cache
    /\ task' = [task EXCEPT ![ProbeTask] = IdleTask]
    /\ UNCHANGED <<now, engineVars, endpointVars, commandVars>>
    /\ UNCHANGED <<tokens, token_expiry, semaphore, issued, db, dossier>>

\* health_check is called: nothing is cached, the first check starts
HealthStart ==
    /\ probe.pc = "idle"
    /\ task[ProbeTask].pc = "idle"
    /\ probe' = [IdleProbe EXCEPT !.pc = "run", !.kind = "health", !.step = 1, !.at = now]
    /\ UNCHANGED <<now, engineVars, clientVars, endpointVars, commandVars>>
    /\ UNCHANGED <<db, readiness_cache, dossier>>

\* a health_check without its try blocks: the exception of a call ends it
HealthCollect_Propagate ==
    /\ probe.pc = "run"
    /\ probe.kind = "health"
    /\ task[ProbeTask].pc = "done"
    /\ LET r == task[ProbeTask].result
           health_status == Append(probe.checks, <<ProbeApis[probe.step], TRUE>>)
       IN probe' = IF IsException(r)
                   THEN [probe EXCEPT !.pc = "done", !.response = Some(r)]
                   ELSE IF probe.step = 3
                   THEN [probe EXCEPT !.pc = "done", !.checks = health_status,
                                      !.response = Some(<<"return", health_status>>)]
                   ELSE [probe EXCEPT !.step = @ + 1, !.checks = health_status]
    /\ task' = [task EXCEPT ![ProbeTask] = IdleTask]
    /\ UNCHANGED <<now, engineVars, endpointVars, commandVars>>
    /\ UNCHANGED <<tokens, token_expiry, semaphore, issued, db, readiness_cache, dossier>>

\* the awaited call of health_check has returned (True) or raised an Exception
\* (False); after the third the dict is returned
HealthCollect ==
    /\ probe.pc = "run"
    /\ probe.kind = "health"
    /\ task[ProbeTask].pc = "done"
    /\ LET r == task[ProbeTask].result
           health_status == Append(probe.checks,
                                   <<ProbeApis[probe.step], ~IsException(r)>>)
       IN probe' = IF probe.step = 3
                   THEN [probe EXCEPT !.pc = "done", !.checks = health_status,
                                      !.response = Some(<<"return", health_status>>)]
                   ELSE [probe EXCEPT !.step = @ + 1, !.checks = health_status]
    /\ task' = [task EXCEPT ![ProbeTask] = IdleTask]
    /\ UNCHANGED <<now, engineVars, endpointVars, commandVars>>
    /\ UNCHANGED <<tokens, token_expiry, semaphore, issued, db, readiness_cache, dossier>>

\* the response has been sent
ProbeEnd ==
    /\ probe.pc = "done"
    /\ probe' = IdleProbe
    /\ UNCHANGED <<now, engineVars, clientVars, endpointVars, commandVars>>
    /\ UNCHANGED <<db, readiness_cache, dossier>>

\* the token endpoint answers 200 with an empty access_token
RespondBlankToken(t) ==
    /\ task[t].pc = "http"
    /\ task[t].req = "token"
    /\ UNCHANGED issued
    /\ Respond(t, 200, Some([access_token |->
                                [api |-> task[t].api, n |-> 0, iat |-> now,
                                 expires_in |-> Nothing],
                             expires_in |-> Nothing]))

(***************************************************************************)
(* DossierWatcher (app/services/watcher.py).  An id is a pair <<text, n>>  *)
(* that stands for the string text_n, so that the ids the watcher makes up *)
(* for items without one (legifrance_0, judilibre_1, ...) can also be sent *)
(* by the upstream.  An item is what the upstream returned for one result: *)
(* its id if it has one.  What the search methods of the client return is  *)
(* an input: (success, results), results being absent when the answer has  *)
(* no "results" key.  The models of app/models/schemas.py are validated as *)
(* pydantic 2 validates them.                                              *)
(***************************************************************************)
\* any(s.id == source_id for s in dossier.sources)
HasSource(sources, source_id) == \E i \in 1..Len(sources) : sources[i].id = source_id

\* an id that is no string: <<"null", 0>> stands for JSON null and <<"int", n>>
\* for the number n.  SourceJuridique.id is declared str, and the model refuses
\* such a value with ValidationError
IsStr(source_id) == source_id[1] \notin {"null", "int"}

\* the body of the loop without its test: every item becomes a source
Ajouter_SansTest(st, type_source, item) ==
    LET source_id == IF item.id # Nothing THEN item.id[1]
                     ELSE <<type_source, Len(st.nouvelles_sources)>>
    IN IF ~IsStr(source_id) THEN [st EXCEPT !.raised = Some("ValidationError")]
       ELSE [st EXCEPT
                !.sources = Append(@, [id |-> source_id, type_source |-> type_source]),
                !.nouvelles_sources = Append(@, [type |-> type_source, id |-> source_id])]

\* the body of "for item in result['results']" of the three _surveiller_* methods:
\* SourceJuridique(id=source_id, ...) raises before anything is appended
Ajouter(st, type_source, item) ==
    LET source_id == IF item.id # Nothing THEN item.id[1]
                     ELSE <<type_source, Len(st.nouvelles_sources)>>
    IN IF HasSource(st.sources, source_id) THEN st
       ELSE IF ~IsStr(source_id) THEN [st EXCEPT !.raised = Some("ValidationError")]
       ELSE [st EXCEPT
                !.sources = Append(@, [id |-> source_id, type_source |-> type_source]),
                !.nouvelles_sources = Append(@, [type |-> type_source, id |-> source_id])]

\* the loop over the items; an exception ends it
RECURSIVE Parcourir(_, _, _)
Parcourir(st, type_source, items) ==
    IF items = <<>> \/ st.raised # Nothing THEN st
    ELSE Parcourir(Ajouter(st, type_source, Head(items)), type_source, Tail(items))

\* _surveiller_legifrance / _surveiller_judilibre / _surveiller_justice_back:
\* the sources of the dossier afterwards and the list returned, or the exception
_surveiller(sources, type_source, answer) ==
    IF answer.success /\ answer.results # Nothing
    THEN Parcourir([sources |-> sources, nouvelles_sources |-> <<>>, raised |-> Nothing],
                   type_source, answer.results[1])
    ELSE [sources |-> sources, nouvelles_sources |-> <<>>, raised |-> Nothing]

\* the loop of surveiller_dossier over the tasks from the i-th on; the exception
\* of a task ends the loop and leaves the sources added before it in the dossier
RECURSIVE Surveiller(_, _, _, _)
Surveiller(st, taches, answers, i) ==
    IF i > Len(taches) \/ st.raised # Nothing THEN st
    ELSE IF ~taches[i].active THEN Surveiller(st, taches, answers, i + 1)
    ELSE LET r == _surveiller(st.sources, taches[i].type_source, answers[i])
         IN Surveiller([sources |-> r.sources,
                        nouvelles_sources |-> st.nouvelles_sources \o r.nouvelles_sources,
                        raised |-> r.raised],
                       taches, answers, i + 1)

\* runs counts the runs of surveiller_dossier on the dossier; returned is what the
\* last of them returned and raised the exception it ended with instead
NoDossier == [sources |-> <<>>, taches_surveillance |-> <<>>, runs |-> 0,
              returned |-> <<>>, raised |-> Nothing]

MaxRuns == 3

\* await watcher.surveiller_dossier(dossier)
SurveillerDossier(answers) ==
    /\ dossier.runs < MaxRuns
    /\ LET st == Surveiller([sources |-> dossier.sources, nouvelles_sources |-> <<>>,
                             raised |-> Nothing],
                            dossier.taches_surveillance, answers, 1)
       IN dossier' = [dossier EXCEPT
                        !.sources = st.sources, !.runs = @ + 1,
                        !.returned = IF st.raised = Nothing THEN st.nouvelles_sources
                                     ELSE <<>>,
                        !.raised = st.raised]
    /\ UNCHANGED <<now, engineVars, clientVars, endpointVars, commandVars>>
    /\ UNCHANGED <<db, readiness_cache, probe>>

ServicesIdle ==
    /\ db = NoSession
    /\ readiness_cache = [_cache |-> Nothing, _timestamp |-> Nothing]
    /\ probe = IdleProbe

AppIdle == ServicesIdle /\ dossier = NoDossier

(***************************************************************************)
(* Specification of the engine: each call is a lookup followed, on a miss, *)
(* by the searches and the write; calls of other threads and the clock run *)
(* in between.                                                             *)
(***************************************************************************)
CacheUsers == {"streamlit_user"}
CacheSituations == {<<" ">>, <<"plainte">>, <<" ", "plainte">>}
CacheStrategies == {None, "Droit pénal"}
CacheConfigs ==
    {[FF_LEGIFRANCE |-> TRUE, FF_JUDILIBRE |-> TRUE, FF_JUSTICEBACK |-> TRUE],
     [FF_LEGIFRANCE |-> TRUE, FF_JUDILIBRE |-> FALSE, FF_JUSTICEBACK |-> TRUE]}
\* what the three client methods return to one call: all succeed with a result,
\* all succeed with none, legifrance alone fails, all fail
CacheReturns ==
    {api \in [Services -> ApiReturns] :
        \/ \A s \in Services : api[s] = api["legifrance"]
        \/ /\ ~api["legifrance"].success
           /\ \A s \in Services \ {"legifrance"} :
                api[s].success /\ api[s].payload.results # <<>>}
CacheTickSteps == {DEFAULT_CACHE_TTL - 1, DEFAULT_CACHE_TTL, DEFAULT_CACHE_TTL + 1}

EngineInit ==
    /\ config \in CacheConfigs
    /\ cache = {}
    /\ ret = NoRet
    /\ pending = NoPending

InitCache == now = 0 /\ EngineInit /\ ClientInit /\ EndpointInit /\ CommandIdle /\ AppIdle

LookupCache ==
    \E c \in Calls, situation \in CacheSituations, strategie \in CacheStrategies,
       user_id \in CacheUsers :
        Lookup(c, situation, strategie, user_id)

SearchAndStoreCache ==
    \E c \in Calls, api \in CacheReturns : SearchAndStore(c, api)

TickCache ==
    \E d \in CacheTickSteps :
        /\ now + d <= MaxTime
        /\ now' = now + d
        /\ UNCHANGED <<config, cache, ret, pending>>
        /\ UNCHANGED <<clientVars, endpointVars, commandVars, appVars>>

NextCache == LookupCache \/ SearchAndStoreCache \/ TickCache

SpecCache == InitCache /\ [][NextCache]_vars

(***************************************************************************)
(* Specification of the engine used by two requesters who ask the same     *)
(* questions.                                                              *)
(***************************************************************************)
SharedUsers == {"streamlit_user", "victime_2"}
SharedSituations == {<<"plainte">>}
SharedStrategies == {None}
SharedReturns ==
    {[s \in Services |-> r] : r \in ApiReturns}
SharedTickSteps == {DEFAULT_CACHE_TTL - 1, DEFAULT_CACHE_TTL + 1}

LookupShared ==
    \E c \in Calls, situation \in SharedSituations, strategie \in SharedStrategies,
       user_id \in SharedUsers :
        Lookup(c, situation, strategie, user_id)

SearchAndStoreShared ==
    \E c \in Calls, api \in {a \in SharedReturns : a["legifrance"].success} :
        SearchAndStore(c, api)

TickShared ==
    \E d \in SharedTickSteps :
        /\ now + d <= MaxTime
        /\ now' = now + d
        /\ UNCHANGED <<engineVars, clientVars, endpointVars, commandVars, appVars>>

NextShared == LookupShared \/ SearchAndStoreShared \/ TickShared

SpecShared == InitCache /\ [][NextShared]_vars

(***************************************************************************)
(* Specification of the engine asked one question in several spellings:    *)
(* capitalised and padded with whitespace.                                 *)
(***************************************************************************)
VariantUsers == {"streamlit_user"}
VariantSituations ==
    {<<"plainte">>, <<"Plainte">>, <<" ", "plainte", " ">>}
VariantStrategies == {None, ""}
VariantReturns ==
    {[s \in Services |-> [success |-> TRUE, payload |-> [results |-> <<"r1">>]]]}
VariantTickSteps == {DEFAULT_CACHE_TTL + 1}

LookupVariant ==
    \E c \in Calls, situation \in VariantSituations, strategie \in VariantStrategies,
       user_id \in VariantUsers :
        Lookup(c, situation, strategie, user_id)

SearchAndStoreVariant ==
    \E c \in Calls, api \in VariantReturns : SearchAndStore(c, api)

TickVariant ==
    \E d \in VariantTickSteps :
        /\ now + d <= MaxTime
        /\ now' = now + d
        /\ UNCHANGED <<engineVars, clientVars, endpointVars, commandVars, appVars>>

NextVariant == LookupVariant \/ SearchAndStoreVariant \/ TickVariant

SpecVariant == InitCache /\ [][NextVariant]_vars

(***************************************************************************)
(* Specification of the engine used by two threads at once: the lookup of  *)
(* one call can fall between the lookup and the write of the other.        *)
(***************************************************************************)
RaceUsers == {"streamlit_user"}
RaceSituations == {<<"plainte">>}
RaceStrategies == {None}
RaceTickSteps == {DEFAULT_CACHE_TTL - 1, DEFAULT_CACHE_TTL + 1}

LookupRace ==
    \E c \in Calls, situation \in RaceSituations, strategie \in RaceStrategies,
       user_id \in RaceUsers :
        Lookup(c, situation, strategie, user_id)

SearchAndStoreRace ==
    \E c \in Calls, api \in SharedReturns : SearchAndStore(c, api)

TickRace ==
    \E d \in RaceTickSteps :
        /\ now + d <= MaxTime
        /\ now' = now + d
        /\ UNCHANGED <<engineVars, clientVars, endpointVars, commandVars, appVars>>

NextRace == LookupRace \/ SearchAndStoreRace \/ TickRace

SpecRace == InitCache /\ [][NextRace]_vars

(***************************************************************************)
(* The engine over a store that can raise: db.session() re-raises every    *)
(* exception after a rollback, and the engine catches IntegrityError only. *)
(***************************************************************************)
\* _charger_depuis_cache raises an SQLAlchemyError: db.session() rolls back and
\* re-raises, and the call ends with the exception before any search
LookupRaises(c, situation0, strategie, user_id) ==
    LET situation == Strip(situation0)
        analyse == _analyser_situation(situation, strategie)
        query_hash == compute_hash([situation |-> analyse.situation,
                                    strategie |-> analyse.strategie_detectee])
    IN /\ pending[c] = Nothing
       /\ situation # <<>>
       /\ ret' = [NoRet EXCEPT !.kind = "SQLAlchemyError", !.user_id = user_id,
                                !.query_hash = query_hash, !.at = now]
       /\ UNCHANGED <<now, pending, config, cache, clientVars, endpointVars,
                       commandVars, appVars>>

\* the thread runs the three searches, then the flush or the commit of
\* _enregistrer_cache raises an SQLAlchemyError other than IntegrityError: nothing
\* is written and the call ends with the exception
SearchAndStoreRaises(c, api) ==
    /\ pending[c] # Nothing
    /\ LET p == pending[c][1]
           analyse == _analyser_situation(p.situation, p.strategie)
           query_hash == compute_hash([situation |-> analyse.situation,
                                       strategie |-> analyse.strategie_detectee])
       IN ret' = [kind |-> "SQLAlchemyError", user_id |-> p.user_id,
                  query_hash |-> query_hash, at |-> p.at, resultats |-> Nothing,
                  fanout |-> TRUE, queried |-> Invoked(config),
                  failed |-> {s \in Invoked(config) : ~api[s].success}]
    /\ pending' = [pending EXCEPT ![c] = Nothing]
    /\ UNCHANGED <<now, config, cache, clientVars, endpointVars, commandVars, appVars>>

LookupStoreRaises ==
    \E c \in Calls, situation \in CacheSituations, strategie \in CacheStrategies,
       user_id \in CacheUsers :
        LookupRaises(c, situation, strategie, user_id)

SearchAndStoreStoreRaises ==
    \E c \in Calls, api \in CacheReturns : SearchAndStoreRaises(c, api)

NextStore ==
    \/ LookupCache
    \/ SearchAndStoreCache
    \/ LookupStoreRaises
    \/ SearchAndStoreStoreRaises
    \/ TickCache

SpecStore == InitCache /\ [][NextStore]_vars

(***************************************************************************)
(* The engine over adapters that can raise: a search of a thread ends with *)
(* the return of the three client methods or with the error one of them    *)
(* raises.                                                                 *)
(***************************************************************************)
AdapterStrategies == {None}

LookupAdapters ==
    \E c \in Calls, situation \in CacheSituations, strategie \in AdapterStrategies,
       user_id \in CacheUsers :
        Lookup(c, situation, strategie, user_id)

AdapterReturns == {api \in CacheReturns : api["legifrance"].payload.results # <<>>}

SearchRaisesAdapters ==
    \E c \in Calls, api \in AdapterReturns, i \in 1..Len(SearchOrder),
       error \in AdapterErrors :
        SearchRaises(c, api, i, error)

NextAdapters ==
    LookupAdapters \/ SearchAndStoreCache \/ SearchRaisesAdapters \/ TickCache

SpecAdapters == InitCache /\ [][NextAdapters]_vars

(***************************************************************************)
(* Specification of db.session(): blocks run one after the other on the    *)
(* table of the cache.  A block flushes the rows it adds itself, as        *)
(* _enregistrer_cache does, or leaves them to the commit of the exit.      *)
(***************************************************************************)
SessionUsers == {"streamlit_user", "victime_2"}
SessionHashes == {<<"hash", <<"plainte">>, None>>}
SessionRows ==
    {[user_id |-> u, query_hash |-> h, situation |-> h[2], strategie |-> None,
      resultats |-> [from_cache |-> FALSE], created_at |-> 0] :
        u \in SessionUsers, h \in SessionHashes}
SessionWrites == SUBSET SessionRows
SessionRaises == {Nothing, Some("ValueError"), Some("OperationalError"),
                  Some("KeyboardInterrupt")}
SessionBlocks ==
    [reads : BOOLEAN, writes : SessionWrites, flush : BOOLEAN,
     catch : BOOLEAN, raises : SessionRaises]

RunSession == \E block \in SessionBlocks : DbSession(block)

NextSession == RunSession

SpecSession == InitCache /\ [][NextSession]_vars

(***************************************************************************)
(* Specification of the client under concurrent searches: two coroutines   *)
(* of one event loop share the ClientMultiAPIs of app.state.http_client.   *)
(***************************************************************************)
ClientTasks == {"t1", "t2"}
ClientApis == {"legifrance", "judilibre"}

\* upstream answers other than a token: (status, parsed body)
Responses ==
    {<<200, Some([results |-> <<"r1">>])>>, <<200, Nothing>>, <<200, Some(EmptyDict)>>,
     <<401, Nothing>>, <<404, Nothing>>, <<429, Nothing>>, <<500, Nothing>>}

EngineIdle ==
    /\ config = [FF_LEGIFRANCE |-> TRUE, FF_JUDILIBRE |-> TRUE, FF_JUSTICEBACK |-> TRUE]
    /\ cache = {}
    /\ ret = NoRet
    /\ pending = NoPending

InitClient == now = 0 /\ EngineIdle /\ ClientInit /\ EndpointInit /\ CommandIdle /\ AppIdle

NextClient ==
    \E t \in ClientTasks :
        \/ \E api \in ClientApis : StartSearch(t, api)
        \/ Acquire(t)
        \/ RespondToken(t, Nothing)
        \/ \E r \in Responses : RespondOther(t, r[1], r[2])
        \/ NetworkError(t)
        \/ Wake(t)

SpecClient == InitClient /\ [][NextClient]_vars

(***************************************************************************)
(* Specification of the token store over time: _get_piste_token called     *)
(* again and again while the clock advances.                               *)
(***************************************************************************)
TokenTasks == {"t1"}
TokenApis == {"legifrance"}
\* expires_in of the token response, in seconds; Nothing when the field is absent
TokenLifetimes == {Some(90), Some(400), Nothing}
TokenFailures == {<<500, Nothing>>, <<401, Nothing>>, <<200, Nothing>>}
TokenTickSteps == {20}

TickToken ==
    \E d \in TokenTickSteps :
        /\ now + d <= MaxSeconds
        /\ now' = now + d
        /\ UNCHANGED <<engineVars, clientVars, endpointVars, commandVars, appVars>>

IssueToken(t) ==
    \E expires_in \in TokenLifetimes :
        /\ task[t].pc = "http"
        /\ issued[task[t].api] < MaxIssued
        /\ RespondToken(t, expires_in)

NextToken ==
    \/ \E t \in TokenTasks :
        \/ \E api \in TokenApis : StartToken(t, api)
        \/ Acquire(t)
        \/ IssueToken(t)
        \/ \E r \in TokenFailures : RespondOther(t, r[1], r[2])
        \/ NetworkError(t)
        \/ Wake(t)
        \/ Finish(t)
    \/ TickToken

SpecToken == InitClient /\ [][NextToken]_vars

(***************************************************************************)
(* Specification of one /api/recherche-complete request: the coroutines of *)
(* the included APIs run concurrently against upstreams that answer,       *)
(* reject the token, fail or drop the connection.                          *)
(***************************************************************************)
LegifrancePayloads ==
    {[results |-> <<>>],
     [results |-> <<[title |-> <<"Loi", "85-677">>, nature |-> "LOI", id |-> "L1",
                     content |-> <<"indemnisation">>]>>]}
JudilibrePayloads ==
    {[results |-> <<>>],
     [results |-> <<[id |-> "J1", number |-> "21-10.001", jurisdiction |-> "cc",
                     solution |-> <<"cassation">>],
                    [id |-> "J2", number |-> "21-10.002", chamber |-> Nothing,
                     solution |-> <<>>]>>]}
JusticeBackPayloads ==
    {[data |-> <<>>],
     [data |-> <<[id |-> "T1", attributes |-> [title |-> "TJ Paris",
                                               field_ldj_gps_lat |-> "",
                                               field_ldj_gps_latitude |-> "48.86",
                                               field_ldj_long |-> ""]]>>]}

Payloads(api) ==
    CASE api = "legifrance" -> LegifrancePayloads
      [] api = "judilibre" -> JudilibrePayloads
      [] api = "justice_back" -> JusticeBackPayloads

FanoutFailures == {<<401, Nothing>>, <<500, Nothing>>}

SearchAnswers(t) ==
    /\ task[t].pc = "http"
    /\ task[t].req = "search"
    /\ \E data \in Payloads(task[t].api) : RespondOther(t, 200, Some(data))

NextFanout ==
    \/ \E include_apis \in SUBSET Services : RechercheComplete(include_apis)
    \/ \E i \in 1..3 : StartGathered(i)
    \/ \E t \in Tasks :
        \/ Acquire(t)
        \/ RespondToken(t, Nothing)
        \/ SearchAnswers(t)
        \/ \E r \in FanoutFailures : RespondOther(t, r[1], r[2])
        \/ Wake(t)
    \/ Gathered

SpecFanout == InitClient /\ [][NextFanout]_vars

(***************************************************************************)
(* Specification of the semaphore: three coroutines share a client built   *)
(* with ClientMultiAPIs(semaphore=asyncio.Semaphore(PoolSize)).            *)
(***************************************************************************)
PoolApis == {"judilibre", "justice_back"}
PoolResponses == {<<200, Some([results |-> <<>>])>>, <<429, Nothing>>, <<404, Nothing>>}

InitPool ==
    /\ now = 0
    /\ EngineIdle
    /\ EndpointInit
    /\ tokens = [a \in Services |-> Nothing]
    /\ token_expiry = [a \in Services |-> Nothing]
    /\ semaphore = PoolSize
    /\ issued = [a \in Services |-> 0]
    /\ task = [t \in Tasks |-> IdleTask]
    /\ piste_config = [a \in Services |-> PisteDefaults]
    /\ CommandIdle /\ AppIdle

NextPool ==
    \E t \in Tasks :
        \/ \E api \in PoolApis : StartSearch(t, api)
        \/ Acquire(t)
        \/ RespondToken(t, Nothing)
        \/ \E r \in PoolResponses : RespondOther(t, r[1], r[2])
        \/ NetworkError(t)
        \/ Wake(t)

SpecPool == InitPool /\ [][NextPool]_vars

(***************************************************************************)
(* Specification of _request_json_with_retry on the clock: one coroutine   *)
(* searches while the upstream answers with any status, with or without a  *)
(* Retry-After header, or the connection fails.                            *)
(***************************************************************************)
RetryTasks == {"t1"}
RetryApis == {"legifrance", "judilibre"}
RetryStatuses == {404, 408, 501, 503}
RetryAfterValues == {"", <<"int", 2>>, <<"int", 0>>, <<"int", -3>>,
                     <<"date", 3>>, <<"text">>}
RetryAfterHeaders ==
    {EmptyDict} \cup {[k \in {"Retry-After"} |-> v] : v \in RetryAfterValues}

TickRetry ==
    /\ now < MaxRetryClock
    /\ now' = now + 1
    /\ UNCHANGED <<engineVars, clientVars, endpointVars, commandVars, appVars>>

NextRetry ==
    \/ \E t \in RetryTasks :
        \/ \E api \in RetryApis : StartSearch(t, api)
        \/ Acquire(t)
        \/ RespondToken(t, Nothing)
        \/ SearchAnswers(t)
        \/ \E st \in RetryStatuses : RespondOther(t, st, Nothing)
        \/ \E h \in RetryAfterHeaders, subsec \in BOOLEAN : TooManyRequests(t, h, subsec)
        \/ NetworkError(t)
        \/ WakeAfterSleep(t)
        \/ Finish(t)
    \/ TickRetry

SpecRetry == InitClient /\ [][NextRetry]_vars

(***************************************************************************)
(* The same without the clock and under fairness: a request that was sent  *)
(* ends in a response or in an error (the session's timeout), a sleep      *)
(* ends, and a coroutine waiting for a free permit gets it.                *)
(***************************************************************************)
LiveTasks == {"t1", "t2"}
LiveStatuses == {404, 408, 503}

Arrives(t) ==
    \/ RespondToken(t, Nothing)
    \/ SearchAnswers(t)
    \/ \E st \in LiveStatuses : RespondOther(t, st, Nothing)
    \/ TooManyRequests(t, EmptyDict, FALSE)
    \/ NetworkError(t)

NextRetryLive ==
    \E t \in LiveTasks :
        \/ \E api \in RetryApis : StartSearch(t, api)
        \/ Acquire(t)
        \/ Arrives(t)
        \/ Wake(t)

SpecRetryLive ==
    /\ InitClient
    /\ [][NextRetryLive]_vars
    /\ \A t \in LiveTasks :
        WF_vars(Acquire(t)) /\ WF_vars(Arrives(t)) /\ WF_vars(Wake(t))

(***************************************************************************)
(* Specification of the endpoints that take a postal code.                 *)
(***************************************************************************)
PostalCodes ==
    {<<"7", "5", "0", "0", "1">>,
     <<"U+0667", "U+0665", "U+0660", "U+0660", "U+0661">>,
     <<"a", "b", "c">>,
     <<"7", "5", "0">>,
     <<"7", "5", "0", "0", "1", "LF">>}
PostalApis == {{"justice_back"}, {"judilibre", "justice_back"}}
PostalFailures == {<<500, Nothing>>}
PostalPrejudices == {<<>>, <<"psychique">>, <<"psychique", "physique">>}
AnalyseCodes == {Nothing, Some(<<>>), Some(<<"a", "b", "c">>)}

NextPostal ==
    \/ \E include_apis \in PostalApis :
            \/ RechercheCompleteWith(include_apis, Nothing)
            \/ \E code_postal \in PostalCodes :
                    RechercheCompleteWith(include_apis, Some(code_postal))
    \/ \E code_postal \in PostalCodes \cup {<<>>} : LieuxJustice(code_postal)
    \/ \E prejudices \in PostalPrejudices, code_postal \in AnalyseCodes :
            AnalyserSituation(prejudices, code_postal)
    \/ \E i \in 1..3 : StartGathered(i)
    \/ \E t \in Tasks :
        \/ Acquire(t)
        \/ RespondToken(t, Nothing)
        \/ SearchAnswers(t)
        \/ \E r \in PostalFailures : RespondOther(t, r[1], r[2])
        \/ Wake(t)
    \/ Gathered
    \/ LieuxReturned
    \/ AnalyseGathered
    \/ AnalyseLocalReturned

SpecPostal == InitClient /\ [][NextPostal]_vars

(***************************************************************************)
(* Specification of the token exchange under every configuration of one    *)
(* service: each of its client id, client secret and token URL is either   *)
(* set or empty in the environment.                                        *)
(***************************************************************************)
CredentialTasks == {"t1"}
CredentialApis == {"legifrance"}
CredentialSettings ==
    [client_id : {"", PisteDefaults.client_id},
     client_secret : {"", PisteDefaults.client_secret},
     token_url : {"", PisteDefaults.token_url}]
\* answers that grant nothing: without a body, or 403 with a body shaped as a grant
CredentialFailures ==
    {<<401, Nothing>>, <<500, Nothing>>,
     <<403, Some([access_token |-> [api |-> "legifrance", n |-> 0, iat |-> 0,
                                    expires_in |-> Nothing],
                  expires_in |-> Nothing])>>}

InitCredentials ==
    /\ now = 0
    /\ EngineIdle
    /\ EndpointInit
    /\ CommandIdle /\ AppIdle
    /\ tokens = [a \in Services |-> Nothing]
    /\ token_expiry = [a \in Services |-> Nothing]
    /\ semaphore = max_concurrent
    /\ issued = [a \in Services |-> 0]
    /\ task = [t \in Tasks |-> IdleTask]
    /\ \E c \in CredentialSettings :
        piste_config = [a \in Services |-> IF a \in CredentialApis THEN c ELSE PisteDefaults]

NextCredentials ==
    \E t \in CredentialTasks :
        \/ \E api \in CredentialApis : StartToken(t, api)
        \/ \E api \in CredentialApis : StartSearch(t, api)
        \/ Acquire(t)
        \/ InvalidURL(t)
        \/ IssueToken(t)
        \/ \E r \in CredentialFailures : RespondOther(t, r[1], r[2])
        \/ TooManyRequests(t, EmptyDict, FALSE)
        \/ NetworkError(t)
        \/ Wake(t)
        \/ Finish(t)

SpecCredentials == InitCredentials /\ [][NextCredentials]_vars

(***************************************************************************)
(* Specification of sequential calls against one service while the clock   *)
(* advances: token requests and searches, one after the other, with        *)
(* upstreams that answer, reject the token or fail.                        *)
(***************************************************************************)
WindowTasks == {"t1"}
WindowApis == {"legifrance"}
WindowLifetimes == {Some(90), Some(400)}
WindowFailures == {<<401, Nothing>>, <<500, Nothing>>}
WindowTickSteps == {30}

TickWindow ==
    \E d \in WindowTickSteps :
        /\ now + d <= MaxSeconds
        /\ now' = now + d
        /\ UNCHANGED <<engineVars, clientVars, endpointVars, commandVars, appVars>>

IssueWindowToken(t) ==
    \E expires_in \in WindowLifetimes :
        /\ task[t].pc = "http"
        /\ issued[task[t].api] < MaxIssued
        /\ RespondToken(t, expires_in)

NextWindow ==
    \/ \E t \in WindowTasks :
        \/ \E api \in WindowApis : StartToken(t, api)
        \/ \E api \in WindowApis : StartSearch(t, api)
        \/ Acquire(t)
        \/ IssueWindowToken(t)
        \/ SearchAnswers(t)
        \/ \E r \in WindowFailures : RespondOther(t, r[1], r[2])
        \/ NetworkError(t)
        \/ Wake(t)
        \/ Finish(t)
    \/ TickWindow

SpecWindow == InitClient /\ [][NextWindow]_vars

(***************************************************************************)
(* Specification of the reading of response bodies: searches answered with *)
(* every content type and every kind of body.                              *)
(***************************************************************************)
BodyTasks == {"t1"}
BodyApis == {"judilibre"}
BodyStatuses == {200, 404, 503}
BodyTypes ==
    {EmptyDict} \cup
    {[k \in {"content-type"} |-> c] :
        c \in [mime : {"application/json", "application/hal+json", "text/html"},
               charset : {None, "utf-8", "latin-1", "utf8mb4"}]}
BodyTexts ==
    {<<>>, <<" ">>, <<"{\"results\": [\"r1\"]}">>, <<" ", "{}">>, <<"<html>">>,
     <<"{\"results\": [\"", "\\xff", "\"]}">>, <<"[[[[", "...", "]]]]">>}

BodyAnswers(t) ==
    \E status \in BodyStatuses, headers \in BodyTypes, raw \in BodyTexts :
        RespondBody(t, status, headers, raw)

NextBody ==
    \E t \in BodyTasks :
        \/ \E api \in BodyApis : StartSearch(t, api)
        \/ Acquire(t)
        \/ RespondToken(t, Nothing)
        \/ BodyAnswers(t)
        \/ Wake(t)
        \/ Finish(t)

SpecBody == InitClient /\ [][NextBody]_vars

(***************************************************************************)
(* Specification of GET /api/ready: readiness checks one after the other,  *)
(* against upstreams that answer, answer with an empty token or fail.      *)
(***************************************************************************)
ReadyTickSteps == {ttl_seconds - 1, ttl_seconds}
ReadyFailures == {<<403, Nothing>>}

TickReady ==
    \E d \in ReadyTickSteps :
        /\ now + d <= MaxSeconds
        /\ now' = now + d
        /\ UNCHANGED <<engineVars, clientVars, endpointVars, commandVars, appVars>>

ReadyAnswers(t) ==
    \/ /\ task[t].pc = "http"
       /\ issued[task[t].api] < MaxIssued
       /\ RespondToken(t, Nothing)
    \/ RespondBlankToken(t)
    \/ SearchAnswers(t)
    \/ \E r \in ReadyFailures : RespondOther(t, r[1], r[2])

NextReady ==
    \/ ReadyStart
    \/ ProbeCall
    \/ Acquire(ProbeTask)
    \/ ReadyAnswers(ProbeTask)
    \/ ReadyCollect
    \/ ProbeEnd
    \/ TickReady

SpecReady == InitClient /\ [][NextReady]_vars

(***************************************************************************)
(* Specification of _get_piste_token called again after a failure: the     *)
(* calls are made one after the other, and the record of a call that is    *)
(* over stays until its caller has dropped it.                             *)
(***************************************************************************)
ExchangeTasks == {"t1", "t2"}
ExchangeApis == {"legifrance"}
ExchangeLifetimes == {Some(90)}
ExchangeFailures == {<<500, Nothing>>, <<403, Nothing>>, <<200, Nothing>>}

\* the caller awaits one _get_piste_token at a time
StartExchange(t, api) ==
    /\ \A u \in ExchangeTasks : task[u].pc \in {"idle", "done"}
    /\ StartToken(t, api)

IssueExchangeToken(t) ==
    \E expires_in \in ExchangeLifetimes :
        /\ task[t].pc = "http"
        /\ issued[task[t].api] < MaxIssued
        /\ RespondToken(t, expires_in)

NextExchange ==
    \/ \E t \in ExchangeTasks :
        \/ \E api \in ExchangeApis : StartExchange(t, api)
        \/ Acquire(t)
        \/ IssueExchangeToken(t)
        \/ \E r \in ExchangeFailures : RespondOther(t, r[1], r[2])
        \/ NetworkError(t)
        \/ Wake(t)
        \/ Finish(t)
    \/ TickToken

SpecExchange == InitClient /\ [][NextExchange]_vars

(***************************************************************************)
(* Specification of health_check: the three checks against upstreams that  *)
(* answer, refuse, reject the token again and again, or drop the           *)
(* connection.                                                             *)
(***************************************************************************)
HealthFailures == {<<403, Nothing>>, <<401, Nothing>>, <<500, Nothing>>}

HealthAnswers(t) ==
    \/ /\ task[t].pc = "http"
       /\ issued[task[t].api] < MaxIssued
       /\ RespondToken(t, Nothing)
    \/ SearchAnswers(t)
    \/ \E r \in HealthFailures : RespondOther(t, r[1], r[2])
    \/ NetworkError(t)

NextHealth ==
    \/ HealthStart
    \/ ProbeCall
    \/ Acquire(ProbeTask)
    \/ HealthAnswers(ProbeTask)
    \/ Wake(ProbeTask)
    \/ HealthCollect
    \/ ProbeEnd

SpecHealth == InitClient /\ [][NextHealth]_vars

(***************************************************************************)
(* Specification of the watcher: runs of surveiller_dossier on one dossier *)
(* whose sources have distinct ids, against upstreams that repeat items,   *)
(* leave out ids, send ids that look like the made-up ones, fail, or       *)
(* answer without results.                                                 *)
(***************************************************************************)
WatcherIds == {<<"legifrance", 0>>, <<"JURITEXT", 7>>}
WatcherItems ==
    {[id |-> Nothing]} \cup {[id |-> Some(i)] : i \in WatcherIds \cup {<<"null", 0>>}}
WatcherResults ==
    {<<>>} \cup {<<a>> : a \in WatcherItems} \cup {<<a, b>> : a, b \in WatcherItems}
WatcherAnswers ==
    {[success |-> FALSE, results |-> Nothing], [success |-> TRUE, results |-> Nothing]}
    \cup {[success |-> TRUE, results |-> Some(r)] : r \in WatcherResults}
WatcherTaches ==
    {<<[type_source |-> "legifrance", active |-> TRUE],
       [type_source |-> "judilibre", active |-> FALSE],
       [type_source |-> "justice_back", active |-> TRUE]>>,
     <<[type_source |-> "legifrance", active |-> TRUE],
       [type_source |-> "judilibre", active |-> TRUE]>>}
WatcherSources ==
    {<<>>,
     <<[id |-> <<"legifrance", 0>>, type_source |-> "legifrance"]>>,
     <<[id |-> <<"JURITEXT", 7>>, type_source |-> "judilibre"],
       [id |-> <<"legifrance", 1>>, type_source |-> "legifrance"]>>}

InitWatcher ==
    /\ now = 0 /\ EngineIdle /\ ClientInit /\ EndpointInit /\ CommandIdle /\ ServicesIdle
    /\ \E sources \in WatcherSources, taches \in WatcherTaches :
        dossier = [NoDossier EXCEPT !.sources = sources, !.taches_surveillance = taches]

\* answers[i] is what the client returns to the i-th task of the dossier
RunWatcher ==
    \E a \in WatcherAnswers, b \in WatcherAnswers : SurveillerDossier(<<a, b, b>>)

NextWatcher == RunWatcher

SpecWatcher == InitWatcher /\ [][NextWatcher]_vars

(***************************************************************************)
(* Specification of the piste_oauth command: every command line, every     *)
(* configuration of the first service and every behaviour of the token     *)
(* endpoints of the first two.                                             *)
(***************************************************************************)
MaxSelection == 2
CommandNames == {"legifrance", "judilibre", "justice_back", "all", "inconnu"}
CommandSelections ==
    UNION {[1..n -> CommandNames] : n \in 0..MaxSelection}
CommandArgv == [services : CommandSelections, json : BOOLEAN, force : BOOLEAN]
DemoSettings ==
    [client_id |-> "demo_client_id", client_secret |-> "demo_client_secret",
     token_url |-> "https://sandbox-oauth.piste.gouv.fr/api/oauth/token"]
CommandSettings ==
    {[legifrance |-> l, judilibre |-> j, justice_back |-> DemoSettings] :
        l \in [client_id : {None, "", DemoSettings.client_id},
               client_secret : {"", DemoSettings.client_secret},
               token_url : {"", DemoSettings.token_url}],
        j \in {DemoSettings}}
CommandConfigs == [MODE_DEMO : BOOLEAN, services : CommandSettings]
Granted ==
    [kind |-> "response", status_code |-> 200,
     json |-> Some(JsonObject([access_token |-> "jeton", expires_in |-> 3600,
                               token_type |-> "Bearer"]))]
TokenAnswers ==
    {Granted,
     [kind |-> "response", status_code |-> 401, json |-> Nothing],
     [kind |-> "response", status_code |-> 200, json |-> Nothing],
     [kind |-> "response", status_code |-> 200,
      json |-> Some([type |-> "array", value |-> [items |-> <<"x">>]])],
     [kind |-> "response", status_code |-> 200,
      json |-> Some([type |-> "null", value |-> [items |-> <<>>]])],
     [kind |-> "RequestException", status_code |-> 0, json |-> Nothing]}

\* the answers to the requests of the first two passes of the loop; the later
\* ones are granted a token
CommandAnswers ==
    {[i \in 1..(MaxSelection + Len(available)) |->
            IF i = 1 THEN a ELSE IF i = 2 THEN b ELSE Granted] :
        a \in TokenAnswers, b \in TokenAnswers}

Run ==
    /\ command.pc = "idle"
    /\ \E argv \in CommandArgv, cfg \in CommandConfigs, answers \in CommandAnswers :
        Main(argv, cfg, answers)

NextCommand == Run \/ Exit

SpecCommand == InitClient /\ [][NextCommand]_vars

(***************************************************************************)
(* Properties of the engine and its cache (SpecCache).                     *)
(***************************************************************************)
\* a call of the engine returned in this step
Returned == ret' # ret /\ ret'.kind = "return"

\* ... and the call before it returned too, for the same requester and query
SameQueryAgain ==
    /\ Returned
    /\ ret.kind = "return"
    /\ ret'.user_id = ret.user_id
    /\ ret'.query_hash = ret.query_hash

SameData(a, b) ==
    /\ a.legifrance = b.legifrance
    /\ a.judilibre = b.judilibre
    /\ a.justice_back = b.justice_back

\* C1: of two calls with the same user_id, situation and strategy made less than
\* the TTL apart, the second returns from_cache = true and the legifrance,
\* judilibre and justice_back data the first returned.
C1_SecondCallFromCache ==
    [][(SameQueryAgain /\ ret'.at - ret.at < DEFAULT_CACHE_TTL)
        => /\ ret'.resultats[1].from_cache = TRUE
           /\ SameData(ret'.resultats[1], ret.resultats[1])]_vars

\* C4: _enregistrer_cache on a key that already has a row replaces the row's
\* result and creation time, so that a lookup made right after the call that
\* stored it returns the newest result.
C4_UpsertReplaces ==
    [][(Returned /\ ret'.fanout
        /\ RowsOf(cache, ret'.user_id, ret'.query_hash) # {})
        => /\ _charger_depuis_cache(cache', ret'.user_id, ret'.query_hash, now')
                = ret'.resultats
           /\ \A r \in RowsOf(cache', ret'.user_id, ret'.query_hash) :
                r.created_at = now']_vars

\* C5: at most one fan-out per TTL window for a requester and query: the identical
\* query that follows a fan-out within its TTL is a cache hit and queries no adapter,
\* also when the fan-out was the refresh of an expired entry.
C5_OneFanoutPerWindow ==
    [][(SameQueryAgain /\ ret.fanout /\ ret'.at - ret.at < DEFAULT_CACHE_TTL)
        => (~ret'.fanout /\ ret'.queried = {})]_vars

\* C6: the aggregate of a fan-out in which every enabled adapter failed is returned
\* but not written to the cache.
AllFailed(r) == r.kind = "return" /\ r.fanout /\ r.queried # {} /\ r.failed = r.queried

C6_AllFailedNotCached ==
    AllFailed(ret) => \A r \in cache : r.resultats # ret.resultats[1]

\* a thread has just ended its lookup in a miss and goes on to the searches
Missed(c) == pending[c] = Nothing /\ pending'[c] # Nothing

\* a thread has just ended its searches and its write
Searched(c) == pending[c] # Nothing /\ pending'[c] = Nothing

\* a lookup has just been answered from the cache
Served == Returned /\ pending' = pending

\* C8: a lookup that finds an entry older than the TTL is a miss and is followed by
\* a search on every enabled adapter; an entry of age at most the TTL is served
\* and no adapter is searched.
C8_TtlDecidesHitOrMiss ==
    [][/\ \A c \in Calls :
            Missed(c) =>
                \A entry \in RowsOf(cache, pending'[c][1].user_id,
                                     QueryHash(pending'[c][1].situation,
                                               pending'[c][1].strategie)) :
                    now - entry.created_at > DEFAULT_CACHE_TTL
       /\ \A c \in Calls :
            Searched(c) =>
                ret'.fanout /\ ret'.queried = {s \in Services : Flag(config, s)}
       /\ Served =>
            \A entry \in RowsOf(cache, ret'.user_id, ret'.query_hash) :
                /\ now - entry.created_at <= DEFAULT_CACHE_TTL
                /\ ~ret'.fanout
                /\ ret'.queried = {}
                /\ SameData(ret'.resultats[1], entry.resultats)]_vars

\* C8 witness: a call has just fanned out over an entry older than the TTL, and the
\* stale entry carries data of an earlier successful search
C8_Witness ==
    /\ ret.kind = "return" /\ ret.fanout /\ ret.at = now
    /\ ret.queried = {"legifrance", "justice_back"}
    /\ \E r \in RowsOf(cache, ret.user_id, ret.query_hash) :
            /\ now - r.created_at > DEFAULT_CACHE_TTL
            /\ r.resultats.legifrance.results # <<>>

(***************************************************************************)
(* Properties of the client (SpecClient, SpecToken).                       *)
(***************************************************************************)
\* C2: a search call re-issues its search after a 401 at most once, with a fresh
\* token; a second 401 ends the call in failure, so that one call makes at most two
\* searches and two token exchanges.
C2_ReissueOnceOn401 ==
    \A t \in Tasks : task[t].op = "search" => task[t].depth <= 1

\* C3: for each service at most one token exchange is in flight at any time.
ExchangesInFlight(api) ==
    {t \in Tasks : task[t].api = api /\ task[t].req = "token" /\ task[t].pc = "http"}

C3_OneExchangeInFlight ==
    \A api \in Services : Cardinality(ExchangesInFlight(api)) <= 1

\* C7: a token that _get_piste_token returns from its cache still has at least 60
\* seconds of validity at the upstream: it is never returned at or after
\* (time of the exchange + expires_in - 60 s).
ReturnedFromCache(t) ==
    /\ task[t].pc = "done"
    /\ task[t].op = "token"
    /\ task[t].req = None
    /\ task[t].result[1] = "return"

C7_SixtySecondsLeft ==
    \A t \in Tasks :
        (ReturnedFromCache(t) /\ task[t].result[2].expires_in # Nothing)
        => task[t].now0 < task[t].result[2].iat + task[t].result[2].expires_in[1] - 60

(***************************************************************************)
(* Properties of the fan-out (SpecFanout, SpecCache).                      *)
(***************************************************************************)
Ended(i) == task[TaskOf(i)].pc = "done"
Failed(i) == Ended(i) /\ IsException(task[TaskOf(i)].result)
Succeeded(i) == Ended(i) /\ ~IsException(task[TaskOf(i)].result)

\* C9: in a fan-out a failing adapter neither cancels nor fails the others: when the
\* request is answered every adapter has run to completion, the answer is the
\* aggregate and not an error, and the section of every adapter that succeeded
\* holds that adapter's own data, whichever other adapters failed.
C9_FailureIsolated ==
    request.pc = "done" =>
        /\ \A i \in 1..Len(request.tasks) : Ended(i)
        /\ request.response[1][1] = 200
        /\ \A i \in 1..Len(request.tasks) :
                Succeeded(i) =>
                    /\ request.response[1][2][request.tasks[i]]
                         = Section(request.tasks[i], task[TaskOf(i)].result[2])
                    /\ request.response[1][2].analyse[CountKey(request.tasks[i])]
                         = Len(Get(task[TaskOf(i)].result[2],
                                   IF request.tasks[i] = "justice_back" THEN "data"
                                   ELSE "results", <<>>))

\* C9 witness: a request over the three services is answered after legifrance
\* failed and justice_back failed while judilibre returned a decision
C9_Witness ==
    /\ request.pc = "done"
    /\ request.tasks = Priority
    /\ Failed(1) /\ Failed(3)
    /\ Succeeded(2)
    /\ task["t2"].result[2].results # <<>>
    /\ Len(request.response[1][2].judilibre) = 2

\* C10: when exactly one adapter of a fan-out fails and the others succeed, the
\* aggregate tells the failed service apart from a service that succeeded with
\* zero results: its entry is not the entry of an empty successful search.
C10_FailureFlagged ==
    (ret.kind = "return" /\ ret.fanout /\ Cardinality(ret.failed) = 1)
        => \A s \in ret.failed :
                \/ ret.resultats[1][s] # EmptyResults
                \/ \E k \in DOMAIN ret.resultats[1] :
                        k \in {"erreurs", "errors", "failed", "failures"}

\* C11: when every adapter of a fan-out failed, the caller receives an explicit
\* failure (an error status), never a successful answer with empty lists.
C11_TotalFailureExplicit ==
    (/\ request.pc = "done"
     /\ request.tasks # <<>>
     /\ \A i \in 1..Len(request.tasks) : Failed(i))
        => request.response[1][1] # 200

\* C12: an exception raised by the cache store during the lookup or during the
\* write never makes analyser_et_rechercher_persistent fail: the call returns.
C12_StoreFailureTolerated ==
    ret.kind # "SQLAlchemyError"

\* C13: at every moment at most as many outbound HTTP requests are in flight as the
\* semaphore has permits, token exchanges and searches of all tasks counted.
InFlight == {t \in Tasks : task[t].pc = "http"}

C13_AtMostMaxConcurrent ==
    Cardinality(InFlight) <= PoolSize

\* C13 witness: a token exchange and a search hold all the permits while a third
\* task waits for one
C13_Witness ==
    /\ semaphore = 0
    /\ Cardinality(InFlight) = PoolSize
    /\ \E t \in InFlight : task[t].req = "token"
    /\ \E t \in InFlight : task[t].req = "search"
    /\ \E t \in Tasks : task[t].pc = "acquire"

(***************************************************************************)
(* Properties of _request_json_with_retry (SpecRetry).                     *)
(***************************************************************************)
TransientStatuses == {408, 425, 429, 500, 502, 503, 504}

\* the step in which an attempt of task t receives a response
ReceivesResponse(t) ==
    /\ task[t].pc = "http"
    /\ task'[t].pc # "http"
    /\ task'[t].last # Nothing
    /\ task'[t].last[1].kind = "response"

\* C14: a response with status 408, 425, 429, 500, 502, 503 or 504 on an attempt
\* that is not the last one is followed by another attempt (the coroutine sleeps and
\* retries); a response with any other status is returned without further attempt.
C14_TransientRetried ==
    [][\A t \in Tasks :
        ReceivesResponse(t) =>
            /\ (/\ task'[t].last[1].status \in TransientStatuses
                /\ task[t].attempt < max_retries(t) - 1)
                    => task'[t].pc = "sleep"
            /\ task'[t].last[1].status \notin TransientStatuses
                    => task'[t].pc # "sleep"]_vars

\* C15: _request_json_with_retry always terminates, after at most 3 attempts for a
\* GET and for a request marked retry_non_idempotent (the token exchange), and
\* after exactly 1 attempt for a POST not so marked, whatever the sequence of
\* responses and network errors; a 429 uses up an attempt.
AttemptsPermitted(t) ==
    IF Method(task[t].req, task[t].api) = "GET" \/ task[t].req = "token" THEN 3 ELSE 1

C15_RetryTerminates ==
    /\ [](\A t \in Tasks :
            task[t].pc \in {"acquire", "http", "sleep"}
                => task[t].attempt + 1 <= AttemptsPermitted(t))
    /\ \A t \in Tasks :
            (task[t].pc \in {"acquire", "http", "sleep"}) ~> (task[t].pc = "done")

\* C15 witness: a GET has ended after its third attempt was answered 429, while an
\* unmarked POST has ended after its only attempt was answered 429
C15_Witness ==
    /\ task["t1"].pc = "done" /\ task["t1"].api = "judilibre"
    /\ task["t1"].req = "search" /\ task["t1"].attempt = 2
    /\ task["t1"].last # Nothing /\ task["t1"].last[1].kind = "response"
    /\ task["t1"].last[1].status = 429
    /\ task["t2"].pc = "done" /\ task["t2"].api = "legifrance"
    /\ task["t2"].req = "search" /\ task["t2"].attempt = 0
    /\ task["t2"].last # Nothing /\ task["t2"].last[1].kind = "response"
    /\ task["t2"].last[1].status = 429

\* C16: after a 429 the next attempt does not start before the Retry-After duration
\* has elapsed: the header's number of seconds, or the time until its HTTP-date,
\* and never less than 1 second, also when the header is missing, zero, negative,
\* a date in the past or unparseable.
RetryAfterSeconds(headers, at) ==
    LET val == Get(headers, "Retry-After", None) IN
    IF val = None \/ val = "" THEN 1
    ELSE IF val[1] = "int" THEN Max(1, val[2])
    ELSE IF val[1] = "date" THEN Max(1, val[2] - at)
    ELSE 1

C16_RetryAfterHonoured ==
    [][\A t \in Tasks :
        (/\ task[t].pc = "sleep"
         /\ task[t].last[1].kind = "response"
         /\ task[t].last[1].status = 429
         /\ task'[t].pc = "acquire")
            => now >= task[t].last[1].at
                        + RetryAfterSeconds(task[t].last[1].headers, task[t].last[1].at)]_vars

\* C17: when every permitted attempt of a request ended in a transient failure, the
\* request ends in an error for its caller and that error carries the status of the
\* last response actually received.
C17_LastStatusCarried ==
    \A t \in Tasks :
        (/\ task[t].pc = "done"
         /\ task[t].last # Nothing
         /\ task[t].last[1].kind = "response"
         /\ task[t].last[1].status \in TransientStatuses)
            => /\ IsException(task[t].result)
               /\ Len(task[t].result[2]) = 2
               /\ task[t].result[2][2] = task[t].last[1].status

(***************************************************************************)
(* Properties of input validation (SpecPostal, SpecCache).                 *)
(***************************************************************************)
ExactlyFiveDigits(code_postal) ==
    Len(code_postal) = 5 /\ \A i \in 1..5 : code_postal[i] \in AsciiDigits

\* C18: a code_postal that is present and is not exactly five digits is rejected
\* with a validation error before any outbound request: the request is answered
\* with a 4xx status, no coroutine is started and no parameters are sent upstream.
C18_PostalCodeRejected ==
    (/\ request.pc # "idle"
     /\ request.code_postal # Nothing
     /\ ~ExactlyFiveDigits(request.code_postal[1]))
        => /\ request.pc = "done"
           /\ request.response[1][1] \in {400, 422}
           /\ request.sent = Nothing
           /\ \A t \in Tasks : task[t].pc = "idle"

\* C19: a query whose description is empty after trimming is rejected with a
\* validation error before any cache access, token exchange or search request, and
\* leaves the cache unchanged.
Blank(situation) == \A i \in 1..Len(situation) : IsSpace(situation[i])

C19_EmptyQueryRejected ==
    [][\A c \in Calls, situation \in {x \in CacheSituations : Blank(x)},
          strategie \in CacheStrategies, user_id \in CacheUsers :
            Lookup(c, situation, strategie, user_id)
                => /\ ret'.kind = "ValueError"
                   /\ ret'.resultats = Nothing
                   /\ ~ret'.fanout /\ ret'.queried = {}
                   /\ pending' = pending
                   /\ cache' = cache
                   /\ tokens' = tokens /\ issued' = issued /\ task' = task]_vars

\* C19 witness: a blank query has just been rejected while the cache holds the
\* entry of an earlier search
C19_Witness ==
    /\ ret.kind = "ValueError"
    /\ ret.at = now
    /\ cache # {}

(***************************************************************************)
(* Error propagation at the orchestrating call (SpecFanout).               *)
(***************************************************************************)
\* in recherche_complete_endpoint: the request is answered 200 with its aggregate,
\* in which a failed service has an empty list and no count
C20_EndpointContained ==
    (request.pc = "done" /\ request.endpoint = "recherche-complete") =>
        /\ request.response[1][1] = 200
        /\ \A i \in 1..Len(request.tasks) :
                Failed(i) =>
                    /\ request.response[1][2][request.tasks[i]] = <<>>
                    /\ CountKey(request.tasks[i])
                            \notin DOMAIN request.response[1][2].analyse

\* in analyser_et_rechercher_persistent: a call that searched returns its aggregate,
\* in which a failed service has the empty result
C20_EngineContained ==
    ret.fanout =>
        /\ ret.kind = "return"
        /\ \A s \in ret.failed : ret.resultats[1][s] = EmptyResults

\* C20: an authentication error or an upstream error raised inside an adapter never
\* propagates out of the orchestrating call (recherche_complete_endpoint,
\* analyser_et_rechercher_persistent): the call answers with its aggregate, in
\* which the error has become the failed (empty) result of that one service.
C20_AdapterErrorContained ==
    /\ C20_EndpointContained
    /\ C20_EngineContained

\* the request has been answered after the token exchange of legifrance was refused
\* (authentication error) and the judilibre search answered 500 (upstream error)
C20_EndpointWitness ==
    /\ request.pc = "done"
    /\ request.tasks = Priority
    /\ Failed(1) /\ task["t1"].result[2][1] = "Erreur auth"
    /\ Failed(2) /\ task["t2"].result[2] = <<"Erreur recherche", 500>>
    /\ Succeeded(3)
    /\ request.response[1][1] = 200

\* the service has its client id, its client secret and its token URL
CredentialsComplete(api) ==
    /\ piste_config[api].client_id # ""
    /\ piste_config[api].client_secret # ""
    /\ piste_config[api].token_url # ""

\* C21: a token request is in flight at the token endpoint only for a service
\* whose client id, client secret and token URL are all configured
C21_NoExchangeWithoutCredentials ==
    \A t \in Tasks :
        (task[t].pc = "http" /\ task[t].req = "token") => CredentialsComplete(task[t].api)

\* every requested name is a service or "all"
KnownSelection(requested) ==
    \A i \in 1..Len(requested) : requested[i] \in Services \cup {"all"}

\* C30: a run of the piste_oauth command in demo mode without --force, whatever
\* services it selects, has posted nothing to a token endpoint and has returned 0
C30_DemoModeSendsNothing ==
    (/\ command.pc = "done"
     /\ command.cfg[1].MODE_DEMO
     /\ ~command.argv[1].force
     /\ KnownSelection(command.argv[1].services))
        => (command.posted = <<>> /\ command.exit = <<"return", 0>>)

\* C30: the command has run in demo mode without --force for two services whose
\* credentials are configured, and has returned 0 without a request
C30_Witness ==
    /\ command.pc = "done"
    /\ command.cfg[1].MODE_DEMO
    /\ ~command.argv[1].force
    /\ command.argv[1].services = <<"legifrance", "judilibre">>
    /\ \A a \in {"legifrance", "judilibre"} :
        /\ ~Not(command.cfg[1].services[a].client_id)
        /\ ~Not(command.cfg[1].services[a].client_secret)
        /\ ~Not(command.cfg[1].services[a].token_url)
    /\ command.posted = <<>>
    /\ command.exit = <<"return", 0>>

\* a token for the service and its expiry are stored, and time t is before the expiry
CachedAndFresh(toks, expiry, api, t) ==
    /\ toks[api] # Nothing
    /\ expiry[api] # Nothing
    /\ t < expiry[api][1]

\* C22: a call that enters _get_piste_token while a token is cached and the clock
\* is before its stored expiry uses that token and sends no token request; a call
\* that enters it otherwise starts a client_credentials exchange; and an exchange
\* is only ever started while no unexpired token is cached, so a second search
\* inside the window of the first one's token causes no second exchange
C22_CachedTokenInsideWindow ==
    [][\A t \in Tasks :
        /\ (task[t].pc = "idle" /\ task'[t].pc # "idle") =>
            LET api == task'[t].api IN
            IF CachedAndFresh(tokens, token_expiry, api, now)
            THEN /\ task'[t].req # "token"
                 /\ issued' = issued
                 /\ task'[t].op = "token" =>
                        (task'[t].pc = "done" /\ task'[t].result = <<"return", tokens[api][1]>>)
                 /\ task'[t].op = "search" => task'[t].bearer = tokens[api]
            ELSE task'[t].req = "token" /\ task'[t].pc = "acquire"
        /\ (task'[t].req = "token" /\ task[t].req # "token") =>
            ~CachedAndFresh(tokens', token_expiry', task'[t].api, now)
     ]_vars

\* C22: a search that began after the first exchange, inside the window of its
\* token, has returned with that token, and the exchange is still the only one
C22_Witness ==
    \E t \in Tasks :
        /\ task[t].pc = "done"
        /\ task[t].op = "search"
        /\ task[t].result[1] = "return"
        /\ task[t].bearer # Nothing
        /\ task[t].bearer[1].n = 1
        /\ task[t].now0 > task[t].bearer[1].iat
        /\ issued[task[t].api] = 1
        /\ token_expiry[task[t].api] # Nothing
        /\ task[t].now0 < token_expiry[task[t].api][1]

\* C23: what a call serves from the cache is the resultats of a row stored under
\* the caller's own user_id and the query's hash, never of a row of another user
C23_CacheIsolatedByUser ==
    (ret.kind = "return" /\ ~ret.fanout) =>
        \E r \in cache :
            /\ r.user_id = ret.user_id
            /\ r.query_hash = ret.query_hash
            /\ r.resultats = ret.resultats[1]

\* C23: a user's query missed and fanned out while another user's row for the
\* same query hash was in the cache and fresh
C23_Witness ==
    /\ ret.kind = "return"
    /\ ret.fanout
    /\ ret.at = now
    /\ \E r \in cache :
        /\ r.user_id # ret.user_id
        /\ r.query_hash = ret.query_hash
        /\ r.created_at < now
        /\ ~(r.created_at < now - DEFAULT_CACHE_TTL)
        /\ r.resultats # ret.resultats[1]

\* a text with its letters lowered, its runs of whitespace collapsed to one
\* character and its leading and trailing whitespace removed
RECURSIVE Collapse(_)
Collapse(s) ==
    IF s = <<>> THEN <<>>
    ELSE IF Len(s) >= 2 /\ IsSpace(s[1]) /\ IsSpace(s[2]) THEN Collapse(Tail(s))
    ELSE <<LowerToken(Head(s))>> \o Collapse(Tail(s))

Normalized(s) == Strip(Collapse(s))

\* C24: two queries of one requester whose texts differ only in letter case or in
\* whitespace are stored under one cache key: the table never holds two rows of a
\* user for texts that are equal once normalized, under different hashes
C24_SpellingsShareKey ==
    \A r1, r2 \in cache :
        (/\ r1.user_id = r2.user_id
         /\ r1.strategie = r2.strategie
         /\ Normalized(r1.situation) = Normalized(r2.situation))
            => r1.query_hash = r2.query_hash

\* C25: the table holds at most one row per (user_id, query_hash), and every call
\* that has ended, the loser of two concurrent inserts included, has returned
C25_OneRowPerKey ==
    /\ \A r1, r2 \in cache :
        (r1.user_id = r2.user_id /\ r1.query_hash = r2.query_hash) => r1 = r2
    /\ ret.kind \in {"none", "return"}

\* C25: a call has returned the results of its own searches while the table holds
\* the row another call wrote for the same key after this call's lookup had
\* missed: its own insert was the losing one
C25_Witness ==
    /\ ret.kind = "return"
    /\ ret.fanout
    /\ \E r \in cache :
        /\ r.user_id = ret.user_id
        /\ r.query_hash = ret.query_hash
        /\ r.created_at >= ret.at
        /\ r.resultats # ret.resultats[1]

\* C26: an adapter whose feature flag is off is not invoked by a fan-out, and its
\* entry in the aggregate is marked as skipped: it is not the entry of an ordinary
\* search that succeeded with no result
C26_DisabledMarkedSkipped ==
    (ret.kind = "return" /\ ret.fanout) =>
        \A s \in Services :
            ~Flag(config, s) =>
                /\ s \notin ret.queried
                /\ ret.resultats[1][s] # EmptyResults

\* C27: in the answer of /api/recherche-complete, whatever the included services
\* and the order in which their coroutines ended, the section of each included
\* service is built from the result of the coroutine that searched that service
\* (empty when it raised), and the section of a service left out is empty
C27_SectionsHoldOwnResults ==
    (request.pc = "done" /\ request.endpoint = "recherche-complete"
        /\ request.response[1][1] = 200) =>
        \A api \in Services :
            LET body == request.response[1][2]
                own == {i \in 1..Len(request.tasks) : request.tasks[i] = api}
            IN IF own = {} THEN body[api] = <<>>
               ELSE \A i \in own :
                    /\ task[TaskOf(i)].api = api
                    /\ body[api] = IF Succeeded(i)
                                   THEN Section(api, task[TaskOf(i)].result[2])
                                   ELSE <<>>

\* C27: a request for judilibre and justice_back alone has been answered after the
\* judilibre search raised and the justice_back search found a place: the second
\* section holds that place and the first is empty
C27_Witness ==
    /\ request.pc = "done"
    /\ request.endpoint = "recherche-complete"
    /\ request.tasks = <<"judilibre", "justice_back">>
    /\ Failed(1)
    /\ Succeeded(2)
    /\ request.response[1][2].judilibre = <<>>
    /\ Len(request.response[1][2].justice_back) = 1
    /\ request.response[1][2].legifrance = <<>>

\* the response the call received last has a content type that is not JSON
NotJson(last) ==
    ~IsJsonType(Get(last.headers, "content-type", [mime |-> "", charset |-> None]))

\* C28: a call of _request_json_with_retry does not end with an exception raised
\* while the body of a response is read: neither when the content type of the
\* response is not JSON nor when its JSON body cannot be parsed
C28_UnparsedBodyNeverRaises ==
    \A t \in Tasks :
        (task[t].pc = "done" /\ task[t].last # Nothing /\ task[t].last[1].kind = "response")
            => /\ task[t].result[1] = "raise" => task[t].result[2][1] # "LookupError"
               /\ task[t].result[1] = "raise" =>
                    task[t].result[2] # <<"RecursionError", "json.loads">>

\* C29: a token exchange that ends with a response other than 200, after the
\* retries that 5xx and 429 answers are given, makes _get_piste_token raise
\* "Erreur auth": no token is returned and none is stored
C29_FailedExchangeRaises ==
    [][\A t \in Tasks :
        (/\ task[t].req = "token"
         /\ task[t].pc # "done"
         /\ task'[t].pc = "done"
         /\ task'[t].last # Nothing
         /\ task'[t].last[1].kind = "response"
         /\ task'[t].last[1].status # 200)
            => /\ task'[t].result[1] = "raise"
               /\ task'[t].result[2][1] = "Erreur auth"
               /\ tokens' = tokens
               /\ token_expiry' = token_expiry
     ]_vars

\* C29: a direct token request has raised "Erreur auth" for the 500 answered to
\* the third attempt of the exchange
C29_Witness ==
    \E t \in Tasks :
        /\ task[t].pc = "done"
        /\ task[t].op = "token"
        /\ task[t].req = "token"
        /\ task[t].result = <<"raise", <<"Erreur auth", 500>>>>
        /\ task[t].last # Nothing
        /\ task[t].last[1].kind = "response"
        /\ task[t].last[1].status = 500
        /\ task[t].last[1].attempt = 2

(***************************************************************************)
(* C31: when the block of a db.session() raises, the table is what it was  *)
(* before the block, the session is closed and the caller gets the         *)
(* exception of the block; when the block exits normally, the rows it      *)
(* wrote and did not roll back itself are in the table and the session is  *)
(* closed.                                                                 *)
(***************************************************************************)
C31_RollbackOrCommit ==
    db.block # Nothing =>
        LET body == db.body[1] IN
        /\ db.now_closed
        /\ body.raised # Nothing =>
            /\ cache = db.before
            /\ db.outcome = body.raised[1]
        /\ body.raised = Nothing =>
            /\ db.outcome = "return"
            /\ cache = db.before \cup body.new \cup body.flushed

\* a row the block added and left to the commit of the exit has the user and the
\* hash of a row of the table
C31_CommitRefused ==
    /\ db.block # Nothing
    /\ \E w \in db.body[1].new : \E r \in db.before :
            r.user_id = w.user_id /\ r.query_hash = w.query_hash

\* C31 as amended: when the block of a db.session() raises, the table is what it
\* was before the block, the session is closed and the caller gets the exception
\* of the block; when the block exits normally the session is closed, and either
\* the commit of the exit is refused (a row the block left to it violates
\* uq_user_query_hash), the table is what it was before the block and the caller
\* gets IntegrityError, or the block returns and the rows it wrote and did not
\* roll back itself are in the table.
C31_RollbackCommitOrRefuse ==
    db.block # Nothing =>
        LET body == db.body[1] IN
        /\ db.now_closed
        /\ body.raised # Nothing =>
            /\ cache = db.before
            /\ db.outcome = body.raised[1]
        /\ (body.raised = Nothing /\ C31_CommitRefused) =>
            /\ db.outcome = "IntegrityError"
            /\ cache = db.before
        /\ (body.raised = Nothing /\ ~C31_CommitRefused) =>
            /\ db.outcome = "return"
            /\ cache = db.before \cup body.new \cup body.flushed

\* C31 witness: a block added two rows, one of them already in the table, and
\* exited normally without flushing: the commit was refused, neither row was
\* written, the session is closed and the caller got IntegrityError
C31_Witness ==
    /\ db.block # Nothing
    /\ db.body[1].raised = Nothing
    /\ Cardinality(db.body[1].new) = 2
    /\ C31_CommitRefused
    /\ db.outcome = "IntegrityError"
    /\ db.now_closed
    /\ cache = db.before

\* a block that inserted a row and then raised: the row is not in the table
C31_Raised ==
    /\ db.block # Nothing
    /\ db.body[1].raised = Some("OperationalError")
    /\ db.body[1].flushed # {}
    /\ db.before # {}
    /\ db.now_closed
    /\ cache = db.before

\* a block that added a row without flushing and returned: the row is in the table
C31_Committed ==
    /\ db.block # Nothing
    /\ db.outcome = "return"
    /\ db.body[1].new # {}
    /\ db.body[1].new \subseteq cache
    /\ ~(db.body[1].new \subseteq db.before)

(***************************************************************************)
(* C32: a readiness check that ran stores its result whatever the status,  *)
(* and a readiness check that starts less than 60 seconds after a result   *)
(* was stored returns that result at once: no call of the client is        *)
(* started, so no token exchange and no search request is sent.            *)
(***************************************************************************)
StoredFresh ==
    /\ readiness_cache._timestamp # Nothing
    /\ now - readiness_cache._timestamp[1] < 60

C32_FreshResultServedFromCache ==
    [][/\ (probe.pc = "idle" /\ probe'.pc # "idle" /\ StoredFresh) =>
            /\ probe'.pc = "done"
            /\ probe'.response = readiness_cache._cache
            /\ task' = task
            /\ readiness_cache' = readiness_cache
       /\ (probe.pc = "run" /\ probe'.pc = "done") =>
            /\ probe'.response[1].status \in {"ready", "degraded", "not_ready"}
            /\ readiness_cache' = [_cache |-> probe'.response,
                                   _timestamp |-> Some(now)]]_vars

\* a check answered from a not_ready result stored 59 seconds earlier
C32_Witness ==
    /\ probe.pc = "done"
    /\ probe.cached
    /\ probe.response[1].status = "not_ready"
    /\ now = readiness_cache._timestamp[1] + 59
    /\ task[ProbeTask].pc = "idle"

\* the same for a degraded and for a ready result
C32_DegradedServed ==
    /\ probe.pc = "done"
    /\ probe.cached
    /\ probe.response[1].status = "degraded"

C32_ReadyServed ==
    /\ probe.pc = "done"
    /\ probe.cached
    /\ probe.response[1].status = "ready"

(***************************************************************************)
(* C33: the permits missing from the semaphore are exactly those of the    *)
(* attempts under way (a request sent and not yet answered, or the sleep   *)
(* that follows its answer or its failure): an attempt that ends by a      *)
(* return, by a retry or by an exception has given its permit back, and    *)
(* with no attempt under way the semaphore is at its full capacity.        *)
(***************************************************************************)
HoldingPermit == {t \in Tasks : task[t].pc \in {"http", "sleep"}}

C33_PermitsReturned ==
    semaphore + Cardinality(HoldingPermit) = PoolSize

\* all three calls are over, one with a return, one with the exception of a
\* network error and one after the wait that follows a 429; every permit is back
C33_Witness ==
    /\ HoldingPermit = {}
    /\ semaphore = PoolSize
    /\ \A t \in Tasks : task[t].pc = "done"
    /\ \E t \in Tasks : task[t].result[1] = "return"
    /\ \E t \in Tasks : task[t].result = <<"raise", <<"ClientError">>>>
    /\ \E t \in Tasks :
        /\ task[t].last # Nothing
        /\ task[t].last[1].kind = "response"
        /\ task[t].last[1].status = 429

(***************************************************************************)
(* C34: a request that sleeps before its next attempt, after a 429, a 5xx  *)
(* or a network error, holds its permit until the sleep ends; sleeping     *)
(* requests therefore count against the cap, and while as many requests    *)
(* sleep as the semaphore has permits no request of the client is sent.    *)
(***************************************************************************)
Sleeping == {t \in Tasks : task[t].pc = "sleep"}

C34_SleepersHoldPermits ==
    [][/\ semaphore <= PoolSize - Cardinality(Sleeping)
       /\ Cardinality(Sleeping) = PoolSize =>
            /\ semaphore = 0
            /\ \A t \in Tasks : task'[t].pc = "http" => task[t].pc = "http"]_vars

\* every permit is held by a sleeping request, one after a 429 and one after a
\* network error, while a third request waits for a permit
C34_Witness ==
    /\ Cardinality(Sleeping) = PoolSize
    /\ semaphore = 0
    /\ \E t \in Sleeping : task[t].last[1].kind = "response" /\ task[t].last[1].status = 429
    /\ \E t \in Sleeping : task[t].last[1].kind = "error"
    /\ \E t \in Tasks : task[t].pc = "acquire"

(***************************************************************************)
(* C35: _request_json_with_retry never hands status 429 to its caller.  A  *)
(* 429 always sends the call to sleep for the Retry-After delay; when it   *)
(* was the answer to the last permitted attempt (the only one of a POST    *)
(* not marked retry_non_idempotent) the call then ends without another     *)
(* request, with status 500 and no data, which its caller raises as an     *)
(* error of status 500.                                                    *)
(***************************************************************************)
Slept429(t) ==
    /\ task[t].pc = "sleep"
    /\ task[t].last[1].kind = "response"
    /\ task[t].last[1].status = 429

C35_Never429 ==
    [][\A t \in RetryTasks :
        /\ (task'[t].pc = "done" /\ IsException(task'[t].result)
                /\ Len(task'[t].result[2]) = 2) =>
            task'[t].result[2][2] # 429
        /\ (task[t].pc = "http" /\ task'[t].last # Nothing
                /\ task'[t].last[1].kind = "response"
                /\ task'[t].last[1].status = 429) =>
            task'[t].pc = "sleep"
        /\ (Slept429(t) /\ task[t].attempt = max_retries(t) - 1
                /\ task'[t] # task[t]) =>
            /\ now >= task[t].until
            /\ task'[t].pc = "done"
            /\ task'[t].result[1] = "raise"
            /\ task'[t].result[2][2] = 500]_vars

\* search_legifrance, an unmarked POST, was answered 429 with Retry-After: 2 on
\* its only attempt and ended two seconds later with the error of status 500
C35_Witness ==
    \E t \in RetryTasks :
        /\ task[t].pc = "done"
        /\ task[t].api = "legifrance"
        /\ task[t].req = "search"
        /\ task[t].last[1].kind = "response"
        /\ task[t].last[1].status = 429
        /\ task[t].last[1].attempt = 0
        /\ task[t].result = <<"raise", <<"Erreur recherche", 500>>>>
        /\ now >= task[t].last[1].at + 2

(***************************************************************************)
(* C36: a cached token is discarded only by a 401 answered to a request    *)
(* that was sent with that very token; a 401 answered to a request sent    *)
(* with an older token leaves the token stored meanwhile in place.         *)
(***************************************************************************)
\* in this step task t, whose search request is in flight, gets its answer
Answered(t) ==
    /\ task[t].pc = "http"
    /\ task[t].req = "search"
    /\ task'[t] # task[t]

C36_OnlyOwnTokenDiscarded ==
    [][\A api \in ClientApis :
        (tokens[api] # Nothing /\ tokens'[api] = Nothing) =>
            \E t \in ClientTasks :
                /\ Answered(t)
                /\ task[t].api = api
                /\ task[t].bearer = tokens[api]]_vars

(***************************************************************************)
(* C37: a token exchange that fails, by a refusal, by an answer without a  *)
(* body or on the network, leaves tokens and token_expiry of every service *)
(* as they were, with no valid token for the service; and a call of        *)
(* _get_piste_token that finds no valid token sends an exchange request,   *)
(* whatever happened to the exchanges before it.                           *)
(***************************************************************************)
FailsExchange(t) ==
    /\ task[t].req = "token"
    /\ task[t].pc # "done"
    /\ task'[t].pc = "done"
    /\ IsException(task'[t].result)

C37_FailureNotRemembered ==
    [][\A t \in ExchangeTasks :
        /\ FailsExchange(t) =>
            /\ tokens' = tokens
            /\ token_expiry' = token_expiry
            /\ ~(/\ tokens'[task[t].api] # Nothing
                 /\ token_expiry'[task[t].api] # Nothing
                 /\ now' < token_expiry'[task[t].api][1])
        /\ (/\ task[t].pc = "idle"
            /\ task'[t].pc # "idle"
            /\ ~(/\ tokens[task'[t].api] # Nothing
                 /\ token_expiry[task'[t].api] # Nothing
                 /\ now < token_expiry[task'[t].api][1])) =>
            /\ task'[t].pc = "acquire"
            /\ task'[t].req = "token"]_vars

\* the exchange of one call was refused with 403 while an expired token was still
\* in the store; the call made after it has sent a new exchange request
C37_Witness ==
    \E t, u \in ExchangeTasks :
        /\ task[u].pc = "done"
        /\ task[u].result = <<"raise", <<"Erreur auth", 403>>>>
        /\ tokens[task[u].api] # Nothing
        /\ task[t].pc = "http"
        /\ task[t].req = "token"
        /\ task[t].api = task[u].api
        /\ task[t].now0 >= task[u].last[1].at
        /\ issued[task[u].api] = 1

(***************************************************************************)
(* C38: health_check ends only by returning a dict that has a boolean for  *)
(* legifrance, justice_back and judilibre, in that order of checking: a    *)
(* check that raised counts as False and the checks after it are made all  *)
(* the same.                                                               *)
(***************************************************************************)
C38_HealthAlwaysReturns ==
    probe.kind = "health" =>
        /\ \A i \in 1..Len(probe.checks) :
            /\ probe.checks[i][1] = ProbeApis[i]
            /\ probe.checks[i][2] \in BOOLEAN
        /\ probe.pc = "run" => Len(probe.checks) = probe.step - 1
        /\ probe.pc = "done" =>
            /\ Len(probe.checks) = 3
            /\ probe.response = Some(<<"return", probe.checks>>)

\* the check of legifrance failed, the two checks after it were made: that of
\* justice_back succeeded and that of judilibre failed
C38_Witness ==
    /\ probe.kind = "health"
    /\ probe.pc = "done"
    /\ probe.checks = <<<<"legifrance", FALSE>>, <<"justice_back", TRUE>>,
                        <<"judilibre", FALSE>>>>

(***************************************************************************)
(* C39: after every run of surveiller_dossier on a dossier whose sources   *)
(* had distinct ids, the sources of the dossier still have distinct ids.   *)
(***************************************************************************)
C39_SourceIdsDistinct ==
    \A i, j \in 1..Len(dossier.sources) :
        i # j => dossier.sources[i].id # dossier.sources[j].id

\* after three runs the dossier holds an id sent by the upstream and ids made up
\* for items without one, and the last run added nothing
C39_Witness ==
    /\ dossier.runs = 3
    /\ dossier.returned = <<>>
    /\ dossier.raised = Nothing
    /\ HasSource(dossier.sources, <<"JURITEXT", 7>>)
    /\ HasSource(dossier.sources, <<"legifrance", 0>>)
    /\ HasSource(dossier.sources, <<"justice_back", 0>>)
    /\ Len(dossier.sources) >= 4

====
